---- MODULE Spec2Model ----
(***************************************************************************)
(* Model of audio_autoeditor: the alignment engine and the retake          *)
(* detector (app/services/alignment.py), the conflict grouper              *)
(* (app/services/conflict.py), the export of the project file              *)
(* (app/services/rpp.py), the background processing runs                   *)
(* (app/routes/project.py) and the review requests (app/routes/api.py).    *)
(*                                                                         *)
(* Strings are sequences of one-character strings, so that the regular     *)
(* expression substitutions of the normalisers are computed character by   *)
(* character.  Times are integers in tenths of a second, confidences are   *)
(* integers in hundredths.  Python indices are kept 0-based and ranges     *)
(* half-open, as difflib's opcodes are; element i of a Python list a is    *)
(* a[i + 1] here.                                                          *)
(***************************************************************************)
EXTENDS Integers, Sequences, FiniteSets, TLC

VARIABLES
    words,            \* transcript_words: the transcribed Word records
    mtext,            \* manuscript_text
    pc,               \* position inside align_transcript_to_manuscript
    manuscript_words, \* local of align_transcript_to_manuscript
    transcript_texts, \* local of align_transcript_to_manuscript
    opcodes,          \* matcher.get_opcodes()
    opi,              \* 1-based position of the for loop over opcodes
    seg_idx,          \* local counter seg_idx
    aligned,          \* the list being built and returned
    segments,         \* aligned_segments handed to detect_conflicts
    cpc,              \* position inside detect_conflicts
    raw,              \* local list raw of detect_conflicts
    conflicts,        \* the conflicts list being built and returned
    rpc,              \* position inside detect_retakes
    retake_groups,    \* local list retake_groups of detect_retakes
    gi,               \* position of the loop of _deduplicate_retake_groups
    kept,             \* local list kept of _deduplicate_retake_groups
    covered_ranges,   \* local set covered_ranges of _deduplicate_retake_groups
    retake_result,    \* the list detect_retakes returns
    audio_files,      \* audio_files handed to export_rpp
    xpc,              \* position inside export_rpp
    markers,          \* local list markers of export_rpp
    tracks,           \* local list tracks of export_rpp
    project_status,   \* Project.status
    audio_mode,       \* Project.audio_mode
    chapters,         \* the chapter rows of the project, by section_index
    project_audio,    \* the AudioFile rows of the project, by sort_order
    db_segments,      \* the AlignmentSegment rows of the project
    threads,          \* the background threads started by _start_processing
    db_takes,         \* the Take rows of the project
    db_conflicts,     \* the Conflict rows of the project
    sections,         \* the ManuscriptSection rows of the project
    response          \* the HTTP status of the last answer of the API

vars == <<words, mtext, pc, manuscript_words, transcript_texts, opcodes, opi,
          seg_idx, aligned, segments, cpc, raw, conflicts, rpc, retake_groups,
          gi, kept, covered_ranges, retake_result, audio_files, xpc, markers,
          tracks, project_status, audio_mode, chapters, project_audio,
          db_segments, threads, db_takes, db_conflicts, sections, response>>

alignVars == <<words, mtext, pc, manuscript_words, transcript_texts, opcodes,
               opi, seg_idx, aligned>>

conflictVars == <<segments, cpc, raw, conflicts>>

retakeVars == <<rpc, retake_groups, gi, kept, covered_ranges, retake_result>>

rppVars == <<audio_files, xpc, markers, tracks>>

reviewVars == <<db_takes, db_conflicts, sections, response>>

webVars == <<project_status, audio_mode, chapters, project_audio,
            db_segments, threads, reviewVars>>

\* detect_retakes is not running
IdleRetake ==
    /\ rpc = "idle"
    /\ retake_groups = <<>>
    /\ gi = 1
    /\ kept = <<>>
    /\ covered_ranges = {}
    /\ retake_result = <<>>

\* export_rpp is not running
IdleRpp ==
    /\ audio_files = <<>>
    /\ xpc = "idle"
    /\ markers = <<>>
    /\ tracks = <<>>

\* no project is loaded
IdleWeb ==
    /\ project_status = "created"
    /\ audio_mode = "chapterized"
    /\ chapters = <<>>
    /\ project_audio = <<>>
    /\ db_segments = <<>>
    /\ threads = <<>>
    /\ db_takes = <<>>
    /\ db_conflicts = <<>>
    /\ sections = <<>>
    /\ response = 0

-----------------------------------------------------------------------------
(* Bounds of the model *)

MaxWords == 3

MaxManuscriptWords == 3

MaxSegments == 3

-----------------------------------------------------------------------------
(* Generic helpers *)

Max(x, y) == IF x >= y THEN x ELSE y

Min(x, y) == IF x <= y THEN x ELSE y

SeqsUpTo(S, n) == UNION {[1..k -> S] : k \in 0..n}

-----------------------------------------------------------------------------
(* Characters: the classes the regular expressions [^\w'] and [^\w\s']     *)
(* tell apart, and str.lower().                                           *)

LowerLetters == {"a", "b", "c", "d", "e", "h", "i", "o", "s"}

UpperLetters == {"A", "B"}

Lower(c) == CASE c = "A" -> "a" [] c = "B" -> "b" [] OTHER -> c

IsWordChar(c) == c \in LowerLetters \cup UpperLetters \cup {"_", "0", "1"}

IsSpace(c) == c \in {" ", "\t", "\n"}

LowerStr(s) == [k \in 1..Len(s) |-> Lower(s[k])]

RECURSIVE LStrip(_)
LStrip(s) == IF s # <<>> /\ IsSpace(Head(s)) THEN LStrip(Tail(s)) ELSE s

RECURSIVE RStrip(_)
RStrip(s) ==
    IF s # <<>> /\ IsSpace(s[Len(s)]) THEN RStrip(SubSeq(s, 1, Len(s) - 1)) ELSE s

Strip(s) == RStrip(LStrip(s))

\* str.split(): the maximal runs of non-whitespace characters, in order
RECURSIVE SplitFrom(_, _)
SplitFrom(s, cur) ==
    IF s = <<>> THEN (IF cur = <<>> THEN <<>> ELSE <<cur>>)
    ELSE IF IsSpace(Head(s))
         THEN (IF cur = <<>> THEN <<>> ELSE <<cur>>) \o SplitFrom(Tail(s), <<>>)
         ELSE SplitFrom(Tail(s), Append(cur, Head(s)))

Split(s) == SplitFrom(s, <<>>)

\* re.sub(r"\s+", " ", s)
RECURSIVE CollapseSpaces(_)
CollapseSpaces(s) ==
    IF s = <<>> THEN <<>>
    ELSE IF IsSpace(Head(s))
         THEN <<" ">> \o CollapseSpaces(LStrip(s))
         ELSE <<Head(s)>> \o CollapseSpaces(Tail(s))

\* " ".join(ws)
RECURSIVE JoinSpace(_)
JoinSpace(ws) ==
    IF ws = <<>> THEN <<>>
    ELSE IF Len(ws) = 1 THEN ws[1]
    ELSE ws[1] \o <<" ">> \o JoinSpace(Tail(ws))

-----------------------------------------------------------------------------
(* _normalize_word and _normalize_text_to_words *)

_normalize_word(word) ==
    SelectSeq(Strip(LowerStr(word)), LAMBDA c : IsWordChar(c) \/ c = "'")

_normalize_text_to_words(text) ==
    LET cleaned1 == [k \in 1..Len(text) |->
                        IF IsWordChar(text[k]) \/ IsSpace(text[k]) \/ text[k] = "'"
                        THEN text[k] ELSE " "]
        cleaned  == Strip(CollapseSpaces(cleaned1))
        ws       == Split(cleaned)
        norm     == [k \in 1..Len(ws) |-> _normalize_word(ws[k])]
    IN  SelectSeq(norm, LAMBDA w : w # <<>>)

-----------------------------------------------------------------------------
(* difflib.SequenceMatcher(None, a, b, autojunk=False), as called at       *)
(* alignment.py:119-122.  No element is junk and none is "popular", so     *)
(* b2j holds every index of b.                                             *)

\* j2len[j] at row i of find_longest_match: the length of the common run of
\* a and b that ends at a[i], b[j] and stays inside a[alo:], b[blo:]
RECURSIVE RunLen(_, _, _, _, _, _)
RunLen(a, b, alo, blo, i, j) ==
    IF a[i + 1] # b[j + 1] THEN 0
    ELSE IF i > alo /\ j > blo THEN 1 + RunLen(a, b, alo, blo, i - 1, j - 1)
    ELSE 1

\* The double loop of find_longest_match, from cell (i, j) on: i over
\* range(alo, ahi), j over the indices of b2j[a[i]] inside [blo, bhi),
\* a strictly longer run replacing the best one.
RECURSIVE ScanFrom(_, _, _, _, _, _, _, _, _)
ScanFrom(a, b, alo, ahi, blo, bhi, i, j, best) ==
    IF i >= ahi THEN best
    ELSE IF j >= bhi THEN ScanFrom(a, b, alo, ahi, blo, bhi, i + 1, blo, best)
    ELSE LET k == RunLen(a, b, alo, blo, i, j)
         IN  ScanFrom(a, b, alo, ahi, blo, bhi, i, j + 1,
                      IF k > best.size
                      THEN [i |-> i - k + 1, j |-> j - k + 1, size |-> k]
                      ELSE best)

\* A matcher that keeps the first common element it meets instead of the
\* longest common run
RECURSIVE ScanFromFirstHit(_, _, _, _, _, _, _, _, _)
ScanFromFirstHit(a, b, alo, ahi, blo, bhi, i, j, best) ==
    IF i >= ahi THEN best
    ELSE IF j >= bhi THEN ScanFromFirstHit(a, b, alo, ahi, blo, bhi, i + 1, blo, best)
    ELSE LET k == RunLen(a, b, alo, blo, i, j)
         IN  ScanFromFirstHit(a, b, alo, ahi, blo, bhi, i, j + 1,
                      IF k > 0 /\ best.size = 0
                      THEN [i |-> i, j |-> j, size |-> 1]
                      ELSE best)

find_longest_match_FirstHit(a, b, alo, ahi, blo, bhi) ==
    ScanFromFirstHit(a, b, alo, ahi, blo, bhi, alo, blo,
                     [i |-> alo, j |-> blo, size |-> 0])

find_longest_match(a, b, alo, ahi, blo, bhi) ==
    ScanFrom(a, b, alo, ahi, blo, bhi, alo, blo, [i |-> alo, j |-> blo, size |-> 0])

\* The work queue of get_matching_blocks followed by its sort(): the blocks
\* left of the longest match, the match, the blocks right of it.
RECURSIVE BlocksIn(_, _, _, _, _, _)
BlocksIn(a, b, alo, ahi, blo, bhi) ==
    LET m == find_longest_match(a, b, alo, ahi, blo, bhi)
    IN  IF m.size = 0 THEN <<>>
        ELSE (IF alo < m.i /\ blo < m.j
              THEN BlocksIn(a, b, alo, m.i, blo, m.j) ELSE <<>>)
             \o <<m>>
             \o (IF m.i + m.size < ahi /\ m.j + m.size < bhi
                 THEN BlocksIn(a, b, m.i + m.size, ahi, m.j + m.size, bhi)
                 ELSE <<>>)

\* The second loop of get_matching_blocks: adjacent blocks are merged into
\* one; st is the block being grown (i1, j1, k1), out the non_adjacent list.
RECURSIVE Collapse(_, _, _)
Collapse(blocks, st, out) ==
    IF blocks = <<>>
    THEN (IF st.size > 0 THEN Append(out, st) ELSE out)
    ELSE LET n == Head(blocks)
         IN  IF st.i + st.size = n.i /\ st.j + st.size = n.j
             THEN Collapse(Tail(blocks), [st EXCEPT !.size = st.size + n.size], out)
             ELSE Collapse(Tail(blocks), n,
                           IF st.size > 0 THEN Append(out, st) ELSE out)

\* A block list that lacks the closing (len(a), len(b), 0) block
get_matching_blocks_NoSentinel(a, b) ==
    Collapse(BlocksIn(a, b, 0, Len(a), 0, Len(b)), [i |-> 0, j |-> 0, size |-> 0], <<>>)

get_matching_blocks(a, b) ==
    Append(Collapse(BlocksIn(a, b, 0, Len(a), 0, Len(b)),
                    [i |-> 0, j |-> 0, size |-> 0], <<>>),
           [i |-> Len(a), j |-> Len(b), size |-> 0])

Opcode(tag, i1, i2, j1, j2) == [tag |-> tag, i1 |-> i1, i2 |-> i2, j1 |-> j1, j2 |-> j2]

\* The loop of get_opcodes over the matching blocks; (i, j) is where the
\* previous block ended.
RECURSIVE OpcodesFrom(_, _, _)
OpcodesFrom(blocks, i, j) ==
    IF blocks = <<>> THEN <<>>
    ELSE LET m == Head(blocks)
             gap == IF i < m.i /\ j < m.j THEN <<Opcode("replace", i, m.i, j, m.j)>>
                    ELSE IF i < m.i THEN <<Opcode("delete", i, m.i, j, m.j)>>
                    ELSE IF j < m.j THEN <<Opcode("insert", i, m.i, j, m.j)>>
                    ELSE <<>>
             eq  == IF m.size > 0
                    THEN <<Opcode("equal", m.i, m.i + m.size, m.j, m.j + m.size)>>
                    ELSE <<>>
         IN  gap \o eq \o OpcodesFrom(Tail(blocks), m.i + m.size, m.j + m.size)

get_opcodes(a, b) == OpcodesFrom(get_matching_blocks(a, b), 0, 0)

-----------------------------------------------------------------------------
(* align_transcript_to_manuscript: the segments each opcode arm appends.   *)
(* tw is transcript_words, mw is manuscript_words, op the opcode and idx   *)
(* the value of seg_idx when the arm is entered.                           *)

Segment(text, expected, st, en, conf, idx, label) ==
    [text |-> text, expected_text |-> expected, start_time |-> st, end_time |-> en,
     confidence |-> conf, segment_type |-> "word", segment_index |-> idx,
     alignment |-> label]

_estimate_missing_time(tw, i1, i2) ==
    IF i2 < Len(tw) THEN tw[i2 + 1].start
    ELSE IF i1 > 0 THEN tw[i1].end
    ELSE 0

\* An equal arm that copies expected_text from the spoken word
EqualSegments_ExpectedFromWord(tw, mw, op, idx) ==
    [k \in 1..Min(op.i2 - op.i1, op.j2 - op.j1) |->
        Segment(tw[op.i1 + k].word, tw[op.i1 + k].word, tw[op.i1 + k].start,
                tw[op.i1 + k].end, tw[op.i1 + k].confidence, idx + k - 1, "match")]

EqualSegments(tw, mw, op, idx) ==
    [k \in 1..Min(op.i2 - op.i1, op.j2 - op.j1) |->
        Segment(tw[op.i1 + k].word, mw[op.j1 + k], tw[op.i1 + k].start,
                tw[op.i1 + k].end, tw[op.i1 + k].confidence, idx + k - 1, "match")]

ReplaceSegmentAt(tw, mw, op, idx, k) ==
    IF k <= op.i2 - op.i1 /\ k <= op.j2 - op.j1
    THEN Segment(tw[op.i1 + k].word, mw[op.j1 + k], tw[op.i1 + k].start,
                 tw[op.i1 + k].end, tw[op.i1 + k].confidence, idx + k - 1, "mismatch")
    ELSE IF k <= op.i2 - op.i1
    THEN Segment(tw[op.i1 + k].word, <<>>, tw[op.i1 + k].start,
                 tw[op.i1 + k].end, tw[op.i1 + k].confidence, idx + k - 1, "extra")
    ELSE LET est_time == _estimate_missing_time(tw, op.i1, op.i2)
         IN  Segment(<<>>, mw[op.j1 + k], est_time, est_time, 0, idx + k - 1, "missing")

\* A replace arm that stops after the paired positions
ReplaceSegments_PairedOnly(tw, mw, op, idx) ==
    [k \in 1..Min(op.i2 - op.i1, op.j2 - op.j1) |-> ReplaceSegmentAt(tw, mw, op, idx, k)]

ReplaceSegments(tw, mw, op, idx) ==
    [k \in 1..Max(op.i2 - op.i1, op.j2 - op.j1) |-> ReplaceSegmentAt(tw, mw, op, idx, k)]

\* An insert arm that forgets to advance seg_idx
InsertSegments_SameIndex(tw, mw, op, idx) ==
    LET est_time == _estimate_missing_time(tw, op.i1, op.i1)
    IN  [k \in 1..(op.j2 - op.j1) |->
            Segment(<<>>, mw[op.j1 + k], est_time, est_time, 0, idx, "missing")]

InsertSegments(tw, mw, op, idx) ==
    LET est_time == _estimate_missing_time(tw, op.i1, op.i1)
    IN  [k \in 1..(op.j2 - op.j1) |->
            Segment(<<>>, mw[op.j1 + k], est_time, est_time, 0, idx + k - 1, "missing")]

\* A delete arm that takes every word's timing from the first word of the run
DeleteSegments_FirstTiming(tw, mw, op, idx) ==
    [k \in 1..(op.i2 - op.i1) |->
        Segment(tw[op.i1 + k].word, <<>>, tw[op.i1 + 1].start, tw[op.i1 + 1].end,
                tw[op.i1 + k].confidence, idx + k - 1, "extra")]

DeleteSegments(tw, mw, op, idx) ==
    [k \in 1..(op.i2 - op.i1) |->
        Segment(tw[op.i1 + k].word, <<>>, tw[op.i1 + k].start, tw[op.i1 + k].end,
                tw[op.i1 + k].confidence, idx + k - 1, "extra")]

-----------------------------------------------------------------------------
(* Inputs of the alignment: the surface forms a word may take and the      *)
(* timing of the k-th transcribed word.                                    *)

\* "a", "B", the hyphenated "a-b" and, for the transcript only, a word whose
\* text is empty after strip()
SharedVocab == {<<"a">>, <<"B">>, <<"a", "-", "b">>}

TranscriptVocab == SharedVocab \cup {<<>>}

ManuscriptVocab == SharedVocab

WordStart(k) == 10 * k

WordEnd(k) == 10 * k + 5

WordConfidence(k) == 100 - 10 * k

MakeWords(ts) ==
    [k \in 1..Len(ts) |->
        [word |-> ts[k], start |-> WordStart(k), end |-> WordEnd(k),
         confidence |-> WordConfidence(k)]]

-----------------------------------------------------------------------------
(* The state machine of align_transcript_to_manuscript *)

InitAlign ==
    /\ \E ts \in SeqsUpTo(TranscriptVocab, MaxWords) : words = MakeWords(ts)
    /\ \E ms \in SeqsUpTo(ManuscriptVocab, MaxManuscriptWords) : mtext = JoinSpace(ms)
    /\ pc = "start"
    /\ manuscript_words = <<>>
    /\ transcript_texts = <<>>
    /\ opcodes = <<>>
    /\ opi = 1
    /\ seg_idx = 0
    /\ aligned = <<>>

IdleConflict ==
    /\ segments = <<>>
    /\ cpc = "idle"
    /\ raw = <<>>
    /\ conflicts = <<>>

Init == InitAlign /\ IdleConflict /\ IdleRetake /\ IdleRpp /\ IdleWeb

\* alignment.py:114-125
Prepare ==
    /\ pc = "start"
    /\ manuscript_words' = _normalize_text_to_words(mtext)
    /\ transcript_texts' = [k \in 1..Len(words) |-> _normalize_word(words[k].word)]
    /\ opcodes' = get_opcodes(transcript_texts', manuscript_words')
    /\ opi' = 1
    /\ seg_idx' = 0
    /\ aligned' = <<>>
    /\ pc' = "loop"
    /\ UNCHANGED <<words, mtext>>
    /\ UNCHANGED conflictVars
    /\ UNCHANGED <<retakeVars, rppVars, webVars>>

Emit(new) ==
    /\ aligned' = aligned \o new
    /\ seg_idx' = seg_idx + Len(new)
    /\ opi' = opi + 1
    /\ UNCHANGED <<words, mtext, pc, manuscript_words, transcript_texts, opcodes>>
    /\ UNCHANGED conflictVars
    /\ UNCHANGED <<retakeVars, rppVars, webVars>>

OnEqual ==
    /\ pc = "loop" /\ opi <= Len(opcodes) /\ opcodes[opi].tag = "equal"
    /\ Emit(EqualSegments(words, manuscript_words, opcodes[opi], seg_idx))

OnReplace ==
    /\ pc = "loop" /\ opi <= Len(opcodes) /\ opcodes[opi].tag = "replace"
    /\ Emit(ReplaceSegments(words, manuscript_words, opcodes[opi], seg_idx))

OnInsert ==
    /\ pc = "loop" /\ opi <= Len(opcodes) /\ opcodes[opi].tag = "insert"
    /\ Emit(InsertSegments(words, manuscript_words, opcodes[opi], seg_idx))

OnDelete ==
    /\ pc = "loop" /\ opi <= Len(opcodes) /\ opcodes[opi].tag = "delete"
    /\ Emit(DeleteSegments(words, manuscript_words, opcodes[opi], seg_idx))

Return ==
    /\ pc = "loop" /\ opi > Len(opcodes)
    /\ pc' = "done"
    /\ UNCHANGED <<words, mtext, manuscript_words, transcript_texts, opcodes, opi,
                   seg_idx, aligned>>
    /\ UNCHANGED conflictVars
    /\ UNCHANGED <<retakeVars, rppVars, webVars>>

Next == Prepare \/ OnEqual \/ OnReplace \/ OnInsert \/ OnDelete \/ Return

Spec == Init /\ [][Next]_vars

-----------------------------------------------------------------------------
(* Properties of align_transcript_to_manuscript *)

WordTexts == [k \in 1..Len(words) |-> words[k].word]

Labels(S) == SelectSeq(aligned, LAMBDA s : s.alignment \in S)

MatchCount == Len(Labels({"match"}))

\* C1: the segment_index values of the returned list are exactly 0, 1, ...,
\* n-1 in output order, with no gap and no repeat (and so are those of the
\* list at every point of its construction).
C1_DenseIndices == \A k \in 1..Len(aligned) : aligned[k].segment_index = k - 1

C1_Witness ==
    /\ pc = "done"
    /\ Len(aligned) >= 3
    /\ \E o \in 1..Len(opcodes) :
          opcodes[o].tag = "insert" /\ opcodes[o].j2 - opcodes[o].j1 >= 2

\* The spoken side of the output: the segments that carry a transcript word,
\* read back as Word records
SpokenAsWords(segs) ==
    [k \in 1..Len(segs) |->
        [word |-> segs[k].text, start |-> segs[k].start_time,
         end |-> segs[k].end_time, confidence |-> segs[k].confidence]]

ExpectedTexts(segs) == [k \in 1..Len(segs) |-> segs[k].expected_text]

\* C2 as stated: the match/mismatch/extra segments with non-empty text are
\* exactly the transcript words in order, and the match/mismatch/missing
\* segments with non-empty expected_text are exactly the manuscript tokens
\* in order.
C2_Original ==
    pc = "done" =>
        /\ SpokenAsWords(SelectSeq(Labels({"match", "mismatch", "extra"}),
                                   LAMBDA s : s.text # <<>>)) = words
        /\ ExpectedTexts(SelectSeq(Labels({"match", "mismatch", "missing"}),
                                   LAMBDA s : s.expected_text # <<>>)) = manuscript_words

\* C2 amended: the match/mismatch/extra segments, whatever their text, are
\* exactly the transcript words in order (text, timing and confidence), and
\* the match/mismatch/missing segments with non-empty expected_text are
\* exactly the manuscript tokens in order.
C2_Reconstruction ==
    pc = "done" =>
        /\ SpokenAsWords(Labels({"match", "mismatch", "extra"})) = words
        /\ ExpectedTexts(SelectSeq(Labels({"match", "mismatch", "missing"}),
                                   LAMBDA s : s.expected_text # <<>>)) = manuscript_words

C2_Witness ==
    /\ pc = "done"
    /\ \E k \in 1..Len(words) : words[k].word = <<>>
    /\ Len(Labels({"extra"})) >= 2
    /\ Len(manuscript_words) >= 2

\* C3 as stated: when the normalized transcript tokens equal the manuscript
\* tokens, the n segments are all match and expected_text == text.
C3_Original ==
    (pc = "done" /\ transcript_texts = manuscript_words) =>
        /\ Len(aligned) = Len(manuscript_words)
        /\ \A k \in 1..Len(aligned) :
              aligned[k].alignment = "match" /\ aligned[k].expected_text = aligned[k].text

\* C3 amended: when the normalized transcript tokens equal the manuscript
\* tokens, there are exactly n segments, all match; text is the spoken
\* word's surface text and expected_text is the manuscript token, which is
\* the normalized form of text.
C3_AllMatch ==
    (pc = "done" /\ transcript_texts = manuscript_words) =>
        /\ Len(aligned) = Len(manuscript_words)
        /\ \A k \in 1..Len(aligned) :
              /\ aligned[k].alignment = "match"
              /\ aligned[k].text = words[k].word
              /\ aligned[k].expected_text = manuscript_words[k]
              /\ aligned[k].expected_text = _normalize_word(aligned[k].text)

C3_Witness ==
    /\ pc = "done"
    /\ transcript_texts = manuscript_words
    /\ Len(aligned) >= 2
    /\ \E k \in 1..Len(aligned) : aligned[k].expected_text # aligned[k].text

\* C4: with no manuscript token every transcript word gives one extra
\* segment, in order and with its own timing; with no transcript word every
\* manuscript token gives one missing segment, in order; with neither the
\* result is empty.
C4_Degenerate ==
    pc = "done" =>
        /\ manuscript_words = <<>> =>
              /\ Len(aligned) = Len(words)
              /\ \A k \in 1..Len(aligned) :
                    /\ aligned[k].alignment = "extra"
                    /\ aligned[k].text = words[k].word
                    /\ aligned[k].start_time = words[k].start
                    /\ aligned[k].end_time = words[k].end
        /\ words = <<>> =>
              /\ Len(aligned) = Len(manuscript_words)
              /\ \A k \in 1..Len(aligned) :
                    /\ aligned[k].alignment = "missing"
                    /\ aligned[k].text = <<>>
                    /\ aligned[k].expected_text = manuscript_words[k]
        /\ (words = <<>> /\ manuscript_words = <<>>) => aligned = <<>>

C4_Witness ==
    /\ pc = "done"
    /\ manuscript_words = <<>>
    /\ Len(words) >= 2
    /\ Len(aligned) = Len(words)

\* C5: a replace opcode over Lt transcript words and Lm manuscript tokens
\* appends exactly max(Lt, Lm) segments: min(Lt, Lm) mismatch segments
\* pairing the k-th word with the k-th token, then the leftover words as
\* extra segments with their own timing, or the leftover tokens as
\* zero-length missing segments.
C5_ReplaceRun ==
    [][(pc = "loop" /\ opi <= Len(opcodes) /\ opcodes[opi].tag = "replace") =>
        LET op  == opcodes[opi]
            Lt  == op.i2 - op.i1
            Lm  == op.j2 - op.j1
            lo  == Min(Lt, Lm)
            new == SubSeq(aligned', Len(aligned) + 1, Len(aligned'))
        IN  /\ SubSeq(aligned', 1, Len(aligned)) = aligned
            /\ Len(new) = Max(Lt, Lm)
            /\ \A k \in 1..lo :
                  /\ new[k].alignment = "mismatch"
                  /\ new[k].text = words[op.i1 + k].word
                  /\ new[k].expected_text = manuscript_words[op.j1 + k]
            /\ \A k \in (lo + 1)..Lt :
                  /\ new[k].alignment = "extra"
                  /\ new[k].text = words[op.i1 + k].word
                  /\ new[k].expected_text = <<>>
                  /\ new[k].start_time = words[op.i1 + k].start
                  /\ new[k].end_time = words[op.i1 + k].end
            /\ \A k \in (lo + 1)..Lm :
                  /\ new[k].alignment = "missing"
                  /\ new[k].text = <<>>
                  /\ new[k].expected_text = manuscript_words[op.j1 + k]
                  /\ new[k].start_time = new[k].end_time]_vars

C5_Witness ==
    /\ pc = "done"
    /\ \E o \in 1..Len(opcodes) :
          /\ opcodes[o].tag = "replace"
          /\ opcodes[o].j2 - opcodes[o].j1 > opcodes[o].i2 - opcodes[o].i1
    /\ \E o \in 1..Len(opcodes) :
          /\ opcodes[o].tag = "replace"
          /\ opcodes[o].i2 - opcodes[o].i1 >= 2

\* Length of a longest common subsequence of a and b
RECURSIVE LcsLen(_, _)
LcsLen(a, b) ==
    IF a = <<>> \/ b = <<>> THEN 0
    ELSE IF Head(a) = Head(b) THEN 1 + LcsLen(Tail(a), Tail(b))
    ELSE Max(LcsLen(Tail(a), b), LcsLen(a, Tail(b)))

\* Length of the common contiguous run of a and b that starts at a[i], b[j]
RECURSIVE CommonRunAt(_, _, _, _)
CommonRunAt(a, b, i, j) ==
    IF i > Len(a) \/ j > Len(b) THEN 0
    ELSE IF a[i] # b[j] THEN 0
    ELSE 1 + CommonRunAt(a, b, i + 1, j + 1)

LongestCommonRun(a, b) ==
    LET lens == {CommonRunAt(a, b, i, j) : i \in 1..Len(a), j \in 1..Len(b)} \cup {0}
    IN  CHOOSE n \in lens : \A m \in lens : m <= n

\* C6 as stated: the number of match segments equals the length of a
\* longest common subsequence of the transcript and manuscript tokens.
C6_Original ==
    pc = "done" => MatchCount = LcsLen(transcript_texts, manuscript_words)

\* C6 amended: the match segments pair equal tokens in increasing order of
\* both sequences, so their number is at most the longest-common-subsequence
\* length, and it is at least the length of the longest common contiguous
\* run of tokens; it need not reach the longest-common-subsequence length.
C6_BetweenRunAndLcs ==
    pc = "done" =>
        /\ MatchCount <= LcsLen(transcript_texts, manuscript_words)
        /\ MatchCount >= LongestCommonRun(transcript_texts, manuscript_words)
        /\ \A k \in 1..Len(aligned) :
              aligned[k].alignment = "match" =>
                  _normalize_word(aligned[k].text) = aligned[k].expected_text

C6_Witness ==
    /\ pc = "done"
    /\ MatchCount >= 2
    /\ MatchCount < LcsLen(transcript_texts, manuscript_words)

\* The output positions of the spoken (non-missing) segments after and
\* before position p
SpokenAfter(p) == {q \in (p + 1)..Len(aligned) : aligned[q].alignment # "missing"}

SpokenBefore(p) == {q \in 1..(p - 1) : aligned[q].alignment # "missing"}

SetMin(S) == CHOOSE x \in S : \A y \in S : x <= y

SetMax(S) == CHOOSE x \in S : \A y \in S : y <= x

\* C7: every missing segment has start_time == end_time, equal to the start
\* of the transcript word that follows the gap if there is one, else to the
\* end of the last transcript word that precedes the missing segment in the
\* output, else to 0.
C7_MissingTime ==
    pc = "done" =>
        \A p \in 1..Len(aligned) :
            aligned[p].alignment = "missing" =>
                /\ aligned[p].start_time = aligned[p].end_time
                /\ aligned[p].start_time =
                      IF SpokenAfter(p) # {}
                      THEN aligned[SetMin(SpokenAfter(p))].start_time
                      ELSE IF SpokenBefore(p) # {}
                      THEN aligned[SetMax(SpokenBefore(p))].end_time
                      ELSE 0

\* C8: when the transcript's word texts are exactly the whitespace-separated
\* words of the manuscript text, the two token sequences are equal and
\* every segment is a match.
C8_LikeForLike ==
    (pc = "done" /\ WordTexts = Split(mtext)) =>
        /\ transcript_texts = manuscript_words
        /\ \A k \in 1..Len(aligned) : aligned[k].alignment = "match"

-----------------------------------------------------------------------------
(* detect_conflicts (app/services/conflict.py) *)

LowConfidenceThreshold == 60

PauseThreshold == 20

None == [is_none |-> TRUE]

\* _ALIGNMENT_TO_CONFLICT.get(alignment)
AlignmentToConflict(alignment) ==
    CASE alignment = "mismatch" -> "misread"
      [] alignment = "missing"  -> "missing_word"
      [] alignment = "extra"    -> "extra_word"
      [] OTHER                  -> "None"

\* A classifier whose low-confidence test includes the threshold itself
ConflictType_AtMost(seg) ==
    LET conflict_type == AlignmentToConflict(seg.alignment)
    IN  IF conflict_type = "None" /\ seg.alignment = "match"
           /\ seg.confidence <= LowConfidenceThreshold
        THEN "low_confidence"
        ELSE conflict_type

\* conflict.py:32-37
ConflictType(seg) ==
    LET conflict_type == AlignmentToConflict(seg.alignment)
    IN  IF conflict_type = "None" /\ seg.alignment = "match"
           /\ seg.confidence < LowConfidenceThreshold
        THEN "low_confidence"
        ELSE conflict_type

\* conflict.py:39-48
RawEntry(seg) ==
    IF ConflictType(seg) # "None"
    THEN [segment_index |-> seg.segment_index, conflict_type |-> ConflictType(seg),
          detected_text |-> seg.text, expected_text |-> seg.expected_text]
    ELSE None

\* current["detected_text"] += " " + text if current["detected_text"] else text
AppendText(cur, text) ==
    IF text = <<>> THEN cur
    ELSE IF cur # <<>> THEN cur \o <<" ">> \o text
    ELSE text

NewGroup(entry) ==
    [segment_index |-> entry.segment_index, conflict_type |-> entry.conflict_type,
     status |-> "pending", detected_text |-> entry.detected_text,
     expected_text |-> entry.expected_text]

\* A grouping step that lets a non-conflict entry pass without ending the run
GroupStep_NoBreak(st, entry) ==
    IF entry = None THEN st
    ELSE IF st.current # None /\ st.current.conflict_type = entry.conflict_type
    THEN [st EXCEPT !.current =
             [st.current EXCEPT
                 !.detected_text = AppendText(st.current.detected_text, entry.detected_text),
                 !.expected_text = AppendText(st.current.expected_text, entry.expected_text)]]
    ELSE [groups  |-> IF st.current # None THEN Append(st.groups, st.current) ELSE st.groups,
          current |-> NewGroup(entry)]

\* One iteration of the loop of _group_consecutive; st holds the locals
\* groups and current.
GroupStep(st, entry) ==
    IF entry = None
    THEN [groups  |-> IF st.current # None THEN Append(st.groups, st.current) ELSE st.groups,
          current |-> None]
    ELSE IF st.current # None /\ st.current.conflict_type = entry.conflict_type
    THEN [st EXCEPT !.current =
             [st.current EXCEPT
                 !.detected_text = AppendText(st.current.detected_text, entry.detected_text),
                 !.expected_text = AppendText(st.current.expected_text, entry.expected_text)]]
    ELSE [groups  |-> IF st.current # None THEN Append(st.groups, st.current) ELSE st.groups,
          current |-> NewGroup(entry)]

RECURSIVE GroupLoop(_, _)
GroupLoop(entries, st) ==
    IF entries = <<>> THEN st ELSE GroupLoop(Tail(entries), GroupStep(st, Head(entries)))

_group_consecutive(entries) ==
    LET st == GroupLoop(entries, [groups |-> <<>>, current |-> None])
    IN  IF st.current # None THEN Append(st.groups, st.current) ELSE st.groups

\* str(n) for a natural number n
RECURSIVE Digits(_)
Digits(n) ==
    LET d == <<"0", "1", "2", "3", "4", "5", "6", "7", "8", "9">>[(n % 10) + 1]
    IN  IF n < 10 THEN <<d>> ELSE Append(Digits(n \div 10), d)

\* f"[{gap:.1f}s pause]" for a gap given in tenths of a second
PauseText(gap) ==
    <<"[">> \o Digits(gap \div 10) \o <<".">> \o Digits(gap % 10)
            \o <<"s", " ", "p", "a", "u", "s", "e", "]">>

\* The loop of _detect_pauses from index i (0-based) on, appending to out
RECURSIVE PauseLoop(_, _, _)
PauseLoop(segs, i, out) ==
    IF i >= Len(segs) THEN out
    ELSE LET gap == segs[i + 1].start_time - segs[i].end_time
         IN  PauseLoop(segs, i + 1,
                 IF gap > PauseThreshold
                 THEN Append(out, [segment_index |-> segs[i + 1].segment_index,
                                   conflict_type |-> "pause", status |-> "pending",
                                   detected_text |-> PauseText(gap),
                                   expected_text |-> <<>>])
                 ELSE out)

\* A pause loop that also reports a silence of exactly the threshold
RECURSIVE PauseLoop_AtLeast(_, _, _)
PauseLoop_AtLeast(segs, i, out) ==
    IF i >= Len(segs) THEN out
    ELSE LET gap == segs[i + 1].start_time - segs[i].end_time
         IN  PauseLoop_AtLeast(segs, i + 1,
                 IF gap >= PauseThreshold
                 THEN Append(out, [segment_index |-> segs[i + 1].segment_index,
                                   conflict_type |-> "pause", status |-> "pending",
                                   detected_text |-> PauseText(gap),
                                   expected_text |-> <<>>])
                 ELSE out)

_detect_pauses_AtLeast(segs, out) == PauseLoop_AtLeast(segs, 1, out)

_detect_pauses(segs, out) == PauseLoop(segs, 1, out)

-----------------------------------------------------------------------------
(* Inputs of detect_conflicts: a list of aligned segments.  The k-th        *)
(* segment carries the k-th spoken / manuscript word below, an alignment    *)
(* label, a confidence on either side of the threshold and a silence        *)
(* before it on either side of the pause threshold; a spoken segment lasts  *)
(* half a second, a missing one has no length; segment_index starts at the *)
(* offset the caller numbered the chapter from.                            *)

SpokenAt(k) ==
    CASE k = 1 -> <<"a", "s">>
      [] k = 2 -> <<"h", "e">>
      [] k = 3 -> <<"s", "a", "i", "d">>
      [] OTHER -> <<"s", "o">>

ScriptAt(k) ==
    CASE k = 1 -> <<"i", "s">>
      [] k = 2 -> <<"s", "h", "e">>
      [] k = 3 -> <<"s", "a", "d">>
      [] OTHER -> <<"d", "o">>

SegmentShapes ==
    [alignment : {"match", "mismatch", "extra"}, confidence : {59, 60}, gap : {20, 21}]
    \cup [alignment : {"missing"}, confidence : {0}, gap : {20, 21}]

Offsets == {0, 5}

RECURSIVE MakeSegments(_, _, _, _)
MakeSegments(shapes, k, offset, prev_end) ==
    IF k > Len(shapes) THEN <<>>
    ELSE LET sh == shapes[k]
             st == prev_end + sh.gap
             en == IF sh.alignment = "missing" THEN st ELSE st + 5
             tx == IF sh.alignment = "missing" THEN <<>> ELSE SpokenAt(k)
             ex == CASE sh.alignment = "match" -> SpokenAt(k)
                     [] sh.alignment = "extra" -> <<>>
                     [] OTHER -> ScriptAt(k)
         IN  <<Segment(tx, ex, st, en, sh.confidence, offset + k - 1, sh.alignment)>>
             \o MakeSegments(shapes, k + 1, offset, en)

-----------------------------------------------------------------------------
(* The state machine of detect_conflicts *)

IdleAlign ==
    /\ words = <<>>
    /\ mtext = <<>>
    /\ pc = "idle"
    /\ manuscript_words = <<>>
    /\ transcript_texts = <<>>
    /\ opcodes = <<>>
    /\ opi = 1
    /\ seg_idx = 0
    /\ aligned = <<>>

InitConflict ==
    /\ IdleAlign
    /\ IdleRetake
    /\ IdleRpp
    /\ IdleWeb
    /\ \E shapes \in SeqsUpTo(SegmentShapes, MaxSegments), offset \in Offsets :
          segments = MakeSegments(shapes, 1, offset, 0)
    /\ cpc = "start"
    /\ raw = <<>>
    /\ conflicts = <<>>

\* conflict.py:27-48
BuildRaw ==
    /\ cpc = "start"
    /\ raw' = [k \in 1..Len(segments) |-> RawEntry(segments[k])]
    /\ cpc' = "raw"
    /\ UNCHANGED <<segments, conflicts>>
    /\ UNCHANGED alignVars
    /\ UNCHANGED <<retakeVars, rppVars, webVars>>

\* conflict.py:51
GroupConsecutive ==
    /\ cpc = "raw"
    /\ conflicts' = _group_consecutive(raw)
    /\ cpc' = "grouped"
    /\ UNCHANGED <<segments, raw>>
    /\ UNCHANGED alignVars
    /\ UNCHANGED <<retakeVars, rppVars, webVars>>

\* conflict.py:54-56
DetectPauses ==
    /\ cpc = "grouped"
    /\ conflicts' = _detect_pauses(segments, conflicts)
    /\ cpc' = "done"
    /\ UNCHANGED <<segments, raw>>
    /\ UNCHANGED alignVars
    /\ UNCHANGED <<retakeVars, rppVars, webVars>>

NextConflict == BuildRaw \/ GroupConsecutive \/ DetectPauses

SpecConflict == InitConflict /\ [][NextConflict]_vars

-----------------------------------------------------------------------------
(* Properties of detect_conflicts *)

\* The classification of segment k as the specification's table gives it
ClassOf(k) ==
    LET seg == segments[k]
    IN  CASE seg.alignment = "mismatch" -> "misread"
          [] seg.alignment = "missing"  -> "missing_word"
          [] seg.alignment = "extra"    -> "extra_word"
          [] seg.alignment = "match" /\ seg.confidence < 60 -> "low_confidence"
          [] OTHER -> "no conflict"

\* First positions of the maximal runs of consecutive segments of one class
RunStarts ==
    {k \in 1..Len(segments) :
        ClassOf(k) # "no conflict" /\ (k = 1 \/ ClassOf(k - 1) # ClassOf(k))}

RunEnd(s) ==
    SetMax({e \in s..Len(segments) : \A m \in s..e : ClassOf(m) = ClassOf(s)})

\* The k-th smallest element of a finite set of integers
RECURSIVE KthSmallest(_, _)
KthSmallest(S, k) ==
    IF k = 1 THEN SetMin(S) ELSE KthSmallest(S \ {SetMin(S)}, k - 1)

NonEmpty(ss) == SelectSeq(ss, LAMBDA x : x # <<>>)

RunRecord(s) ==
    [segment_index |-> segments[s].segment_index,
     conflict_type |-> ClassOf(s),
     status        |-> "pending",
     detected_text |-> JoinSpace(NonEmpty([m \in 1..(RunEnd(s) - s + 1) |->
                                              segments[s + m - 1].text])),
     expected_text |-> JoinSpace(NonEmpty([m \in 1..(RunEnd(s) - s + 1) |->
                                              segments[s + m - 1].expected_text]))]

WordRecords == SelectSeq(conflicts, LAMBDA c : c.conflict_type # "pause")

\* C9: the word-level records correspond one-to-one, in order, to the
\* maximal runs of consecutive segments of one conflict class; each is
\* anchored at the segment_index of the first segment of its run, is
\* pending, and joins the non-empty text / expected_text fields of the run
\* with single spaces.
C9_RunsToRecords ==
    cpc = "done" =>
        WordRecords = [k \in 1..Cardinality(RunStarts) |->
                          RunRecord(KthSmallest(RunStarts, k))]

\* three consecutive extra segments 5, 6, 7 "as" "he" "said" give the single
\* record extra_word "as he said" anchored at 5
C9_Witness ==
    /\ cpc = "done"
    /\ Len(segments) = 3
    /\ \A k \in 1..3 :
          /\ segments[k].alignment = "extra"
          /\ segments[k].segment_index = 4 + k
    /\ segments[1].text = <<"a", "s">>
    /\ segments[2].text = <<"h", "e">>
    /\ segments[3].text = <<"s", "a", "i", "d">>
    /\ Len(WordRecords) = 1
    /\ WordRecords[1].conflict_type = "extra_word"
    /\ WordRecords[1].segment_index = 5
    /\ WordRecords[1].detected_text =
          <<"a", "s", " ", "h", "e", " ", "s", "a", "i", "d">>

\* The word-level record whose run covers segment k, if any
CoveringRecords(k) ==
    {r \in 1..Len(WordRecords) :
        \E s \in RunStarts :
            /\ s <= k /\ k <= RunEnd(s)
            /\ WordRecords[r].segment_index = segments[s].segment_index}

\* C10: each segment is classified by its label alone (mismatch -> misread,
\* missing -> missing_word, extra -> extra_word, whatever the confidence); a
\* match is low_confidence exactly when its confidence is below 0.6, and a
\* match of confidence 0.6 or more is no conflict and ends the running
\* group: no record covers it and the segment after it starts a new record.
C10_Classification ==
    /\ cpc \in {"raw", "grouped", "done"} =>
          /\ Len(raw) = Len(segments)
          /\ \A k \in 1..Len(segments) :
                IF segments[k].alignment = "match" /\ segments[k].confidence >= 60
                THEN raw[k] = None
                ELSE /\ raw[k] # None
                     /\ raw[k].conflict_type = ClassOf(k)
                     /\ raw[k].segment_index = segments[k].segment_index
    /\ cpc = "done" =>
          \A k \in 1..Len(segments) :
              IF ClassOf(k) = "no conflict"
              THEN /\ CoveringRecords(k) = {}
                   /\ (k < Len(segments) /\ ClassOf(k + 1) # "no conflict") =>
                         \E r \in 1..Len(WordRecords) :
                            /\ WordRecords[r].segment_index = segments[k + 1].segment_index
                            /\ WordRecords[r].conflict_type = ClassOf(k + 1)
              ELSE \E r \in CoveringRecords(k) :
                      WordRecords[r].conflict_type = ClassOf(k)

\* a run of extra words is cut in two by a match of confidence exactly 0.6
\* while a mismatch of confidence below 0.6 is still a misread
C10_Witness ==
    /\ cpc = "done"
    /\ Len(segments) = 3
    /\ segments[1].alignment = "extra" /\ segments[1].confidence = 59
    /\ segments[2].alignment = "match" /\ segments[2].confidence = 60
    /\ segments[3].alignment = "extra"
    /\ Len(WordRecords) = 2

\* The positions k >= 2 whose segment starts more than 2.0 s after the end
\* of the segment before it
PausePositions ==
    {k \in 2..Len(segments) : segments[k].start_time - segments[k - 1].end_time > 20}

PauseRecords == SelectSeq(conflicts, LAMBDA c : c.conflict_type = "pause")

\* C11: there is exactly one pause record per segment i >= 1 whose start is
\* strictly more than 2.0 s after the end of segment i-1 (none for a gap of
\* exactly 2.0), anchored at segment i, pending, with empty expected_text;
\* the pause records are separate records that follow the word-level
\* records, which are the ones grouping produced without them.
C11_Pauses ==
    cpc = "done" =>
        /\ Len(PauseRecords) = Cardinality(PausePositions)
        /\ \A n \in 1..Len(PauseRecords) :
              LET k == KthSmallest(PausePositions, n)
              IN  /\ PauseRecords[n].segment_index = segments[k].segment_index
                  /\ PauseRecords[n].status = "pending"
                  /\ PauseRecords[n].expected_text = <<>>
        /\ conflicts = WordRecords \o PauseRecords
        /\ WordRecords = [k \in 1..Cardinality(RunStarts) |->
                             RunRecord(KthSmallest(RunStarts, k))]

\* a gap of 2.0 s and a gap of 2.1 s in one list, the second before a
\* segment that also starts a word-level record
C11_Witness ==
    /\ cpc = "done"
    /\ Len(segments) = 3
    /\ segments[2].start_time - segments[1].end_time = 20
    /\ segments[3].start_time - segments[2].end_time = 21
    /\ 3 \in RunStarts
    /\ Len(PauseRecords) = 1
    /\ Len(WordRecords) >= 1

(***************************************************************************)
(* detect_retakes: repeated manuscript passages in the transcript.         *)
(***************************************************************************)

\* min_phrase_len of detect_retakes
MinPhraseLen == 3

\* the constant 20 in the range of phrase_len
PhraseLenCap == 20

\* largest transcript of the general retake inputs
MaxRetakeWords == 5

\* largest manuscript of the general retake inputs
MaxRetakeManuscript == 6

\* all starting indices (0-based, ascending) where phrase occurs in ws
_find_phrase_occurrences(ws, phrase) ==
    LET phrase_len == Len(phrase)
        n == Max(Len(ws) - phrase_len + 1, 0)
    IN  SelectSeq([i \in 1..n |-> i - 1],
                  LAMBDA i : SubSeq(ws, i + 1, i + phrase_len) = phrase)

RECURSIVE SumConfidence(_, _, _)
\* sum(transcript_words[i]["confidence"] for i in range(lo, hi + 1)), lo and hi 0-based
SumConfidence(tw, lo, hi) ==
    IF lo > hi THEN 0 ELSE tw[lo + 1].confidence + SumConfidence(tw, lo + 1, hi)

\* one entry of takes; the mean confidence is kept as the exact quotient sum / phrase_len
Take(tw, occ_start, phrase_len) ==
    LET occ_end == occ_start + phrase_len - 1
    IN  [start_idx  |-> occ_start,
         end_idx    |-> occ_end,
         start_time |-> tw[occ_start + 1].start,
         end_time   |-> tw[occ_end + 1].end,
         confidence |-> [sum |-> SumConfidence(tw, occ_start, occ_end), over |-> phrase_len],
         text       |-> JoinSpace([i \in 1..phrase_len |-> tw[occ_start + i].word])]

\* one entry of retake_groups
RetakeGroup(tw, mw, m_start, phrase_len, occurrences) ==
    [manuscript_start |-> m_start,
     manuscript_end   |-> m_start + phrase_len,
     expected_text    |-> JoinSpace(SubSeq(mw, m_start + 1, m_start + phrase_len)),
     takes            |-> [n \in 1..Len(occurrences) |-> Take(tw, occurrences[n], phrase_len)]]

\* mutant of IsRetake: a single occurrence is enough
IsRetake_Once(occurrences) == Len(occurrences) > 0

\* the test len(occurrences) > 1
IsRetake(occurrences) == Len(occurrences) > 1

RECURSIVE ScanStarts(_, _, _, _, _)
\* the inner loop over m_start, from m_start on
ScanStarts(tw, mw, tt, phrase_len, m_start) ==
    IF m_start >= Len(mw) - phrase_len + 1 THEN <<>>
    ELSE LET phrase == SubSeq(mw, m_start + 1, m_start + phrase_len)
             occurrences == _find_phrase_occurrences(tt, phrase)
         IN  (IF IsRetake(occurrences)
              THEN <<RetakeGroup(tw, mw, m_start, phrase_len, occurrences)>>
              ELSE <<>>)
             \o ScanStarts(tw, mw, tt, phrase_len, m_start + 1)

\* the exclusive upper end of range(min_phrase_len, min(20, len(manuscript_words) + 1))
PhraseLenStop(mw) == Min(PhraseLenCap, Len(mw) + 1)

RECURSIVE ScanLengths(_, _, _, _)
\* the outer loop over phrase_len, from phrase_len on
ScanLengths(tw, mw, tt, phrase_len) ==
    IF phrase_len >= PhraseLenStop(mw) THEN <<>>
    ELSE ScanStarts(tw, mw, tt, phrase_len, 0) \o ScanLengths(tw, mw, tt, phrase_len + 1)

\* manuscript_end - manuscript_start, the sort key of the deduplication
GroupLength(g) == g.manuscript_end - g.manuscript_start

RECURSIVE BucketsDown(_, _)
\* groups of length L, then of length L - 1, ...: each bucket keeps its order
BucketsDown(groups, L) ==
    IF L < 0 THEN <<>>
    ELSE SelectSeq(groups, LAMBDA g : GroupLength(g) = L) \o BucketsDown(groups, L - 1)

\* groups.sort(key=length, reverse=True): stable, longest first
SortLongestFirst(groups) ==
    IF groups = <<>> THEN <<>>
    ELSE BucketsDown(groups, SetMax({GroupLength(groups[k]) : k \in 1..Len(groups)}))

RECURSIVE BucketsUp(_, _, _)
\* groups starting at s, then at s + 1, ... up to top
BucketsUp(groups, s, top) ==
    IF s > top THEN <<>>
    ELSE SelectSeq(groups, LAMBDA g : g.manuscript_start = s) \o BucketsUp(groups, s + 1, top)

\* sorted(kept, key=manuscript_start): stable, ascending
SortByStart(groups) ==
    IF groups = <<>> THEN <<>>
    ELSE BucketsUp(groups, 0, SetMax({groups[k].manuscript_start : k \in 1..Len(groups)}))

\* set(range(manuscript_start, manuscript_end))
ManuscriptRange(g) == g.manuscript_start..(g.manuscript_end - 1)

\* mutant of KeepStep: every group is kept
KeepStep_All(st, group) ==
    [kept |-> Append(st.kept, group),
     covered_ranges |-> st.covered_ranges \cup ManuscriptRange(group)]

\* one iteration of the loop over the sorted groups
KeepStep(st, group) ==
    IF ManuscriptRange(group) \cap st.covered_ranges = {}
    THEN [kept |-> Append(st.kept, group),
          covered_ranges |-> st.covered_ranges \cup ManuscriptRange(group)]
    ELSE st

\* spoken words of the general retake inputs
RetakeVocab == {<<"a">>, <<"B">>}

\* the letters the tokens of the long inputs are spelt with
TokenLetters == <<"a", "b", "c", "d", "e">>

\* the k-th of 25 pairwise different two-letter tokens, k from 1
LongToken(k) ==
    <<TokenLetters[((k - 1) \div Len(TokenLetters)) + 1],
      TokenLetters[((k - 1) % Len(TokenLetters)) + 1]>>

\* a manuscript of n different tokens whose first L tokens are spoken twice
SpokenTwice(n, L) ==
    [transcript |-> [k \in 1..(2 * L) |-> LongToken(((k - 1) % L) + 1)],
     manuscript |-> [k \in 1..n |-> LongToken(k)]]

\* inputs around the cap on the phrase length, and one whose longest
\* repeated passage comes after a shorter one
RetakeCases ==
    {SpokenTwice(n, L) : n \in {19, 20, 21}, L \in {19, 20}}
    \cup {[transcript |-> <<<<"a">>, <<"a">>, <<"a">>, <<"a">>, <<"B">>, <<"B">>,
                            <<"B">>, <<"B">>, <<"B">>>>,
           manuscript |-> <<<<"a">>, <<"a">>, <<"a">>, <<"B">>, <<"B">>, <<"B">>, <<"B">>>>]}

RetakeInputs ==
    {[transcript |-> ts, manuscript |-> ms] :
        ts \in SeqsUpTo(RetakeVocab, MaxRetakeWords),
        ms \in SeqsUpTo(RetakeVocab, MaxRetakeManuscript)}
    \cup RetakeCases

InitRetake ==
    /\ \E input \in RetakeInputs :
          /\ words = MakeWords(input.transcript)
          /\ mtext = JoinSpace(input.manuscript)
    /\ pc = "idle"
    /\ manuscript_words = <<>>
    /\ transcript_texts = <<>>
    /\ opcodes = <<>>
    /\ opi = 1
    /\ seg_idx = 0
    /\ aligned = <<>>
    /\ IdleConflict
    /\ IdleRpp
    /\ IdleWeb
    /\ rpc = "start"
    /\ retake_groups = <<>>
    /\ gi = 1
    /\ kept = <<>>
    /\ covered_ranges = {}
    /\ retake_result = <<>>

\* the two normalisations at the head of detect_retakes
NormalizeRetake ==
    /\ rpc = "start"
    /\ manuscript_words' = _normalize_text_to_words(mtext)
    /\ transcript_texts' = [k \in 1..Len(words) |-> _normalize_word(words[k].word)]
    /\ rpc' = "scan"
    /\ UNCHANGED <<words, mtext, pc, opcodes, opi, seg_idx, aligned>>
    /\ UNCHANGED <<retake_groups, gi, kept, covered_ranges, retake_result>>
    /\ UNCHANGED <<conflictVars, rppVars, webVars>>

\* the sliding-window scan
ScanRetakes ==
    /\ rpc = "scan"
    /\ retake_groups' = ScanLengths(words, manuscript_words, transcript_texts, MinPhraseLen)
    /\ rpc' = "scanned"
    /\ UNCHANGED <<gi, kept, covered_ranges, retake_result>>
    /\ UNCHANGED <<alignVars, conflictVars, rppVars, webVars>>

\* _deduplicate_retake_groups is entered: an empty list is returned at
\* once, any other is sorted in place, longest phrase first
SortGroups ==
    /\ rpc = "scanned"
    /\ IF retake_groups = <<>>
       THEN /\ rpc' = "done"
            /\ UNCHANGED retake_groups
       ELSE /\ rpc' = "dedup"
            /\ retake_groups' = SortLongestFirst(retake_groups)
    /\ UNCHANGED <<gi, kept, covered_ranges, retake_result>>
    /\ UNCHANGED <<alignVars, conflictVars, rppVars, webVars>>

\* one iteration of the loop over the sorted groups
KeepOrSkip ==
    /\ rpc = "dedup"
    /\ gi <= Len(retake_groups)
    /\ LET st == KeepStep([kept |-> kept, covered_ranges |-> covered_ranges],
                          retake_groups[gi])
       IN  /\ kept' = st.kept
           /\ covered_ranges' = st.covered_ranges
    /\ gi' = gi + 1
    /\ UNCHANGED <<rpc, retake_groups, retake_result>>
    /\ UNCHANGED <<alignVars, conflictVars, rppVars, webVars>>

\* the loop is over: kept is returned sorted by manuscript_start
ReturnRetakes ==
    /\ rpc = "dedup"
    /\ gi > Len(retake_groups)
    /\ retake_result' = SortByStart(kept)
    /\ rpc' = "done"
    /\ UNCHANGED <<retake_groups, gi, kept, covered_ranges>>
    /\ UNCHANGED <<alignVars, conflictVars, rppVars, webVars>>

NextRetake ==
    NormalizeRetake \/ ScanRetakes \/ SortGroups \/ KeepOrSkip \/ ReturnRetakes

SpecRetake == InitRetake /\ [][NextRetake]_vars

-----------------------------------------------------------------------------
(* Claims about detect_retakes *)

\* the manuscript window of L tokens starting at token s (0-based)
Window(s, L) == SubSeq(manuscript_words, s + 1, s + L)

\* the (start, length) pairs of all windows of the manuscript
Windows ==
    {w \in (0..Len(manuscript_words)) \X (1..Len(manuscript_words)) :
        w[1] + w[2] <= Len(manuscript_words)}

\* the transcript positions where the window occurs
OccurrencesOf(w) == _find_phrase_occurrences(transcript_texts, Window(w[1], w[2]))

\* window v lies inside window w
Inside(v, w) == w[1] <= v[1] /\ v[1] + v[2] <= w[1] + w[2]

\* a phrase that is the only repeated passage: it occurs once in the
\* manuscript, exactly twice in the transcript, and no manuscript window
\* other than the phrase and the windows inside it is spoken twice
OnlyRepeat(w) ==
    /\ MinPhraseLen <= w[2] /\ w[2] <= PhraseLenCap
    /\ Len(_find_phrase_occurrences(manuscript_words, Window(w[1], w[2]))) = 1
    /\ Len(OccurrencesOf(w)) = 2
    /\ \A v \in Windows : ~Inside(v, w) => Len(OccurrencesOf(v)) < 2

\* the result is the single group of window w with its two occurrences in order
SingleGroup(w) ==
    /\ Len(retake_result) = 1
    /\ retake_result[1].manuscript_start = w[1]
    /\ retake_result[1].manuscript_end = w[1] + w[2]
    /\ Len(retake_result[1].takes) = 2
    /\ \A n \in 1..2 :
          /\ retake_result[1].takes[n].start_idx = OccurrencesOf(w)[n]
          /\ retake_result[1].takes[n].end_idx = OccurrencesOf(w)[n] + w[2] - 1
    /\ retake_result[1].takes[1].start_idx < retake_result[1].takes[2].start_idx
    /\ retake_result[1].takes[1].start_time < retake_result[1].takes[2].start_time

\* C12: a phrase of 3 to 20 tokens that is the only repeated passage (once in
\* the manuscript, exactly twice in the transcript, nothing longer or
\* elsewhere repeated) is returned as exactly one group, whose range is the
\* phrase and whose two occurrences are in ascending transcript position.
C12_SingleGroup ==
    rpc = "done" => \A w \in Windows : OnlyRepeat(w) => SingleGroup(w)

\* the groups of a list, as a set
GroupsOf(groups) == {groups[k] : k \in 1..Len(groups)}

\* C13: the returned groups have pairwise disjoint manuscript ranges and
\* strictly increasing manuscript_start, each is one of the scanned
\* candidates, and every candidate that is not returned overlaps a returned
\* group whose phrase is at least as long.
C13_GreedyLongestFirst ==
    rpc = "done" =>
        /\ \A i, j \in 1..Len(retake_result) :
              i < j =>
                  /\ ManuscriptRange(retake_result[i]) \cap ManuscriptRange(retake_result[j]) = {}
                  /\ retake_result[i].manuscript_start < retake_result[j].manuscript_start
        /\ GroupsOf(retake_result) \subseteq GroupsOf(retake_groups)
        /\ \A c \in GroupsOf(retake_groups) \ GroupsOf(retake_result) :
              \E g \in GroupsOf(retake_result) :
                  /\ ManuscriptRange(c) \cap ManuscriptRange(g) # {}
                  /\ GroupLength(g) >= GroupLength(c)

\* C13 witness: two groups are returned, the later one the longer, and a
\* candidate was dropped
C13_Witness ==
    /\ rpc = "done"
    /\ Len(retake_result) = 2
    /\ GroupLength(retake_result[2]) > GroupLength(retake_result[1])
    /\ GroupsOf(retake_groups) \ GroupsOf(retake_result) # {}

\* the transcript word range [start_idx, end_idx] of a take
TakeRange(t) == t.start_idx..t.end_idx

\* C14: within every returned group the transcript word ranges of any two
\* distinct occurrences are disjoint.
C14_DisjointTakes ==
    rpc = "done" =>
        \A k \in 1..Len(retake_result) :
            \A i, j \in 1..Len(retake_result[k].takes) :
                i # j => TakeRange(retake_result[k].takes[i])
                            \cap TakeRange(retake_result[k].takes[j]) = {}

\* C15: every manuscript window of 3 to 20 tokens with two or more
\* occurrences in the normalized transcript is among the scanned candidates,
\* and a phrase of exactly 20 tokens spoken twice is returned as one group
\* of length 20.
C15_LengthsUpToCap ==
    /\ rpc \in {"scanned", "dedup", "done"} =>
          \A w \in Windows :
              (MinPhraseLen <= w[2] /\ w[2] <= PhraseLenCap /\ Len(OccurrencesOf(w)) >= 2) =>
                  \E g \in GroupsOf(retake_groups) :
                      g.manuscript_start = w[1] /\ g.manuscript_end = w[1] + w[2]
    /\ rpc = "done" =>
          \A w \in Windows :
              (w[2] = PhraseLenCap /\ OnlyRepeat(w)) =>
                  Len(retake_result) = 1 /\ GroupLength(retake_result[1]) = PhraseLenCap

\* C16: every returned group has a phrase of at least 3 tokens that occurs
\* at least twice in the transcript and lists at least 2 occurrences; a
\* manuscript of fewer than 3 tokens yields the empty list.
C16_AtLeastThreeTwice ==
    rpc = "done" =>
        /\ \A k \in 1..Len(retake_result) :
              /\ GroupLength(retake_result[k]) >= MinPhraseLen
              /\ Len(retake_result[k].takes) >= 2
              /\ Len(OccurrencesOf(<<retake_result[k].manuscript_start,
                                 GroupLength(retake_result[k])>>)) >= 2
        /\ Len(manuscript_words) < MinPhraseLen => retake_result = <<>>

\* C16 witness: a group is returned while another window of three tokens,
\* spoken exactly once, is not
C16_Witness ==
    /\ rpc = "done"
    /\ retake_result # <<>>
    /\ \E w \in Windows :
          /\ w[2] = MinPhraseLen
          /\ Len(OccurrencesOf(w)) = 1
          /\ \A k \in 1..Len(retake_result) :
                ~Inside(w, <<retake_result[k].manuscript_start, GroupLength(retake_result[k])>>)

-----------------------------------------------------------------------------
(***************************************************************************)
(* export_rpp: the REAPER project built from audio files, segments and     *)
(* conflicts.  Items, tracks and markers are kept as records of the values *)
(* the project text is printed from.                                       *)
(***************************************************************************)

\* most segments handed to export_rpp
MaxRppSegments == 3

\* most conflicts handed to export_rpp
MaxRppConflicts == 2

\* the gap of 0.1 s between flagged items, in tenths of a second
FlaggedGap == 1

\* _infer_alignment of the export route
_infer_alignment(text, expected_text) ==
    IF text = <<>> /\ expected_text # <<>> THEN "missing"
    ELSE IF text # <<>> /\ expected_text = <<>> THEN "extra"
    ELSE IF text # <<>> /\ expected_text # <<>>
         THEN (IF Strip(LowerStr(text)) = Strip(LowerStr(expected_text))
               THEN "match" ELSE "mismatch")
    ELSE "match"

\* create_simple_item: the values an item block is printed from
Item(wav_path, position, length, soffs, name, mute) ==
    [path |-> wav_path, position |-> position, length |-> length,
     soffs |-> soffs, name |-> name, mute |-> mute]

\* create_track: the values a track block is printed from
Track(items, name, mute) == [name |-> name, mute |-> mute, items |-> items]

\* create_marker: the values a marker line is printed from
Marker(index, position, name, color) ==
    [index |-> index, position |-> position, name |-> name, color |-> color]

\* _marker_color
_marker_color(status) ==
    CASE status = "needs_edit" -> 33554687
      [] status = "pending" -> 33488896
      [] status = "ok" -> 16842752
      [] OTHER -> 0

\* audio_path_map.get(seg_audio_id, default_audio) if seg_audio_id else default_audio;
\* an audio_file_id of the segment that is None is written 0, which is as falsy
AudioPath(afs, seg_audio_id) ==
    LET default_audio == IF afs = <<>> THEN <<>> ELSE afs[1].path
        hits == {k \in 1..Len(afs) : afs[k].audio_file_id = seg_audio_id}
    IN  IF seg_audio_id = 0 \/ hits = {} THEN default_audio
        ELSE afs[SetMax(hits)].path

\* mutant of PosStep: skipped segments are given a position too
PosStep_NoSkip(st, seg) ==
    [position |-> st.position + Max(seg.end_time - seg.start_time, 0),
     map |-> [x \in DOMAIN st.map \cup {seg.segment_index} |->
                 IF x = seg.segment_index THEN st.position ELSE st.map[x]]]

\* one iteration of the loop that fills conformed_pos_map
PosStep(st, seg) ==
    LET length == seg.end_time - seg.start_time
    IN  IF seg.alignment = "missing" THEN st
        ELSE IF length <= 0 THEN st
        ELSE [position |-> st.position + length,
              map |-> [x \in DOMAIN st.map \cup {seg.segment_index} |->
                          IF x = seg.segment_index THEN st.position ELSE st.map[x]]]

RECURSIVE PosLoop(_, _, _)
\* the loop that fills conformed_pos_map, from segment i on
PosLoop(segs, i, st) ==
    IF i > Len(segs) THEN st ELSE PosLoop(segs, i + 1, PosStep(st, segs[i]))

\* conformed_pos_map: segment_index -> position on the conformed timeline
conformed_pos_map(segs) == PosLoop(segs, 1, [position |-> 0, map |-> <<>>]).map

\* the marker label, as the pieces the f-strings put together
MarkerLabel(c) ==
    <<"[", c.conflict_type, ":", c.status, "]">>
    \o (IF c.detected_text # <<>> /\ c.expected_text # <<>>
        THEN <<" ">> \o c.detected_text \o <<" -> ">> \o c.expected_text
        ELSE IF c.detected_text # <<>> THEN <<" ">> \o c.detected_text
        ELSE IF c.expected_text # <<>> THEN <<" (missing: ">> \o c.expected_text \o <<")">>
        ELSE <<>>)

RECURSIVE MarkerLoop(_, _, _, _)
\* the loop over conflicts that appends the markers, from conflict i on
MarkerLoop(cs, i, pos_map, out) ==
    IF i > Len(cs) THEN out
    ELSE IF cs[i].segment_index \in DOMAIN pos_map
         THEN MarkerLoop(cs, i + 1, pos_map,
                         Append(out, Marker(Len(out) + 1, pos_map[cs[i].segment_index],
                                            MarkerLabel(cs[i]), _marker_color(cs[i].status))))
         ELSE MarkerLoop(cs, i + 1, pos_map, out)

\* the duration the reference pass uses: the stored one, or the probed one
\* when the stored one is not positive and the file is on disk
ReferenceDuration(af) ==
    IF af.duration <= 0 /\ af.on_disk THEN af.probed ELSE af.duration

RECURSIVE ReferenceLoop(_, _, _, _)
\* the loop over audio_files that appends the reference tracks, from file i on
ReferenceLoop(afs, i, ref_offset, out) ==
    IF i > Len(afs) THEN out
    ELSE LET duration == ReferenceDuration(afs[i])
         IN  IF duration > 0
             THEN ReferenceLoop(afs, i + 1, ref_offset + duration,
                      Append(out, Track(<<Item(afs[i].path, ref_offset, duration, 0,
                                               afs[i].filename, 0)>>,
                                        <<"Reference - ">> \o afs[i].filename, 1)))
             ELSE ReferenceLoop(afs, i + 1, ref_offset, out)

\* conflict_map.get(seg_idx): the last conflict of the list with that segment_index
ConflictAt(cs, seg_index) ==
    LET hits == {k \in 1..Len(cs) : cs[k].segment_index = seg_index}
    IN  IF hits = {} THEN None ELSE cs[SetMax(hits)]

\* mutant of ConformedStep: the position is stepped on by end_time
ConformedStep_ByEnd(st, afs, cs, seg) ==
    LET length == seg.end_time - seg.start_time
        conflict == ConflictAt(cs, seg.segment_index)
        mute == IF conflict # None /\ conflict.status = "needs_edit" THEN 1 ELSE 0
        name == IF seg.text # <<>> THEN seg.text ELSE seg.expected_text
    IN  IF seg.alignment = "missing" \/ length <= 0 THEN st
        ELSE [position |-> st.position + seg.end_time,
              items |-> Append(st.items, Item(AudioPath(afs, seg.audio_file_id), st.position,
                                              length, seg.start_time, name, mute))]

\* one iteration of the loop of build_conformed_items
ConformedStep(st, afs, cs, seg) ==
    LET length == seg.end_time - seg.start_time
        conflict == ConflictAt(cs, seg.segment_index)
        mute == IF conflict # None /\ conflict.status = "needs_edit" THEN 1 ELSE 0
        name == IF seg.text # <<>> THEN seg.text ELSE seg.expected_text
    IN  IF seg.alignment = "missing" THEN st
        ELSE IF length <= 0 THEN st
        ELSE [position |-> st.position + length,
              items |-> Append(st.items, Item(AudioPath(afs, seg.audio_file_id), st.position,
                                              length, seg.start_time, name, mute))]

RECURSIVE ConformedLoop(_, _, _, _, _)
\* the loop of build_conformed_items, from segment i on
ConformedLoop(segs, i, afs, cs, st) ==
    IF i > Len(segs) THEN st
    ELSE ConformedLoop(segs, i + 1, afs, cs, ConformedStep(st, afs, cs, segs[i]))

\* build_conformed_items: the items of the conformed track
build_conformed_items(afs, segs, cs) ==
    ConformedLoop(segs, 1, afs, cs, [position |-> 0, items |-> <<>>]).items

\* mutant of FlaggedStep: no gap between flagged items
FlaggedStep_NoGap(st, afs, seg) ==
    LET length == seg.end_time - seg.start_time
    IN  IF length > 0
        THEN [position |-> st.position + length,
              items |-> Append(st.items, Item(AudioPath(afs, seg.audio_file_id), st.position,
                                              length, seg.start_time,
                                              <<"[EDIT] ">> \o seg.text, 0))]
        ELSE st

\* one iteration of the loop over the segments matching a needs_edit conflict
FlaggedStep(st, afs, seg) ==
    LET length == seg.end_time - seg.start_time
    IN  IF length > 0
        THEN [position |-> st.position + length + FlaggedGap,
              items |-> Append(st.items, Item(AudioPath(afs, seg.audio_file_id), st.position,
                                              length, seg.start_time,
                                              <<"[EDIT] ">> \o seg.text, 0))]
        ELSE st

RECURSIVE MatchingLoop(_, _, _, _)
\* the loop over the segments whose segment_index is that of the conflict
MatchingLoop(matching, j, afs, st) ==
    IF j > Len(matching) THEN st
    ELSE MatchingLoop(matching, j + 1, afs, FlaggedStep(st, afs, matching[j]))

RECURSIVE FlaggedLoop(_, _, _, _, _)
\* the loop over conflicts that collects the flagged items, from conflict i on
FlaggedLoop(cs, i, segs, afs, st) ==
    IF i > Len(cs) THEN st
    ELSE IF cs[i].status # "needs_edit" THEN FlaggedLoop(cs, i + 1, segs, afs, st)
    ELSE LET matching == SelectSeq(segs, LAMBDA s : s.segment_index = cs[i].segment_index)
         IN  FlaggedLoop(cs, i + 1, segs, afs, MatchingLoop(matching, 1, afs, st))

\* flagged_items of export_rpp
FlaggedItems(afs, segs, cs) ==
    FlaggedLoop(cs, 1, segs, afs, [position |-> 0, items |-> <<>>]).items

\* the tracks list of export_rpp: reference tracks, then the conformed
\* track, then the flagged track
ExportTracks(afs, segs, cs) ==
    ReferenceLoop(afs, 1, 0, <<>>)
    \o (IF segs # <<>> /\ afs # <<>> /\ build_conformed_items(afs, segs, cs) # <<>>
        THEN <<Track(build_conformed_items(afs, segs, cs), "Conformed Edit", 0)>>
        ELSE <<>>)
    \o (IF cs # <<>> /\ FlaggedItems(afs, segs, cs) # <<>>
        THEN <<Track(FlaggedItems(afs, segs, cs), "Flagged - Needs Edit", 1)>>
        ELSE <<>>)

\* the kinds of segment handed to export_rpp: spoken with positive length,
\* spoken with no length, and missing from the audio
RppShapes == {"spoken", "instant", "missing"}

\* the k-th segment of the export, of the given kind
RppSegment(shape, k) ==
    LET text == IF shape = "missing" THEN <<>> ELSE SpokenAt(k)
        expected_text == IF shape = "missing" THEN ScriptAt(k) ELSE SpokenAt(k)
        length == IF shape = "spoken" THEN k + 2
                  ELSE IF shape = "reversed" THEN -1 ELSE 0
    IN  [text |-> text,
         expected_text |-> expected_text,
         start_time |-> WordStart(k),
         end_time |-> WordStart(k) + length,
         confidence |-> IF shape = "missing" THEN 0 ELSE WordConfidence(k),
         segment_type |-> "word",
         segment_index |-> k - 1,
         alignment |-> _infer_alignment(text, expected_text),
         audio_file_id |-> k - 1]

\* the statuses a stored conflict can have
Statuses == {"pending", "ok", "needs_edit"}

\* the c-th conflict of the export, anchored at segment seg: the first of the
\* list is a word-level one, the later ones are pauses
RppConflict(c, seg, status) ==
    [segment_index |-> seg.segment_index,
     conflict_type |-> IF c > 1 THEN "pause"
                       ELSE IF seg.alignment = "missing" THEN "missing_word"
                       ELSE "low_confidence",
     status |-> status,
     detected_text |-> IF c > 1 THEN PauseText(PauseThreshold + 1) ELSE seg.text,
     expected_text |-> IF c > 1 THEN <<>> ELSE seg.expected_text]

\* the k-th audio file of the project; the second has no stored duration
AudioFile(k) ==
    [audio_file_id |-> k,
     path |-> <<"uploads/">> \o Digits(k) \o <<".", "w", "a", "v">>,
     filename |-> <<"take">> \o Digits(k) \o <<".", "w", "a", "v">>,
     duration |-> IF k = 1 THEN 300 ELSE 0,
     on_disk |-> TRUE,
     probed |-> 400]

\* the audio file lists of the export
AudioChoices == {<<AudioFile(1)>>, <<AudioFile(1), AudioFile(2)>>}

InitRpp ==
    /\ IdleAlign
    /\ IdleRetake
    /\ IdleWeb
    /\ cpc = "idle"
    /\ raw = <<>>
    /\ \E shapes \in SeqsUpTo(RppShapes, MaxRppSegments) :
          /\ segments = [k \in 1..Len(shapes) |-> RppSegment(shapes[k], k)]
          /\ \E picks \in SeqsUpTo((1..Len(shapes)) \X Statuses, MaxRppConflicts) :
                conflicts = [c \in 1..Len(picks) |->
                                RppConflict(c, segments[picks[c][1]], picks[c][2])]
    /\ audio_files \in AudioChoices
    /\ xpc = "start"
    /\ markers = <<>>
    /\ tracks = <<>>

\* export_rpp up to the point where the project text is put together
ExportRpp ==
    /\ xpc = "start"
    /\ markers' = MarkerLoop(conflicts, 1, conformed_pos_map(segments), <<>>)
    /\ tracks' = ExportTracks(audio_files, segments, conflicts)
    /\ xpc' = "done"
    /\ UNCHANGED <<alignVars, conflictVars, retakeVars, audio_files, webVars>>

NextRpp == ExportRpp

SpecRpp == InitRpp /\ [][NextRpp]_vars

-----------------------------------------------------------------------------
(* Claims about export_rpp *)

\* the segments that give an item of the conformed track
KeptSegments ==
    SelectSeq(segments, LAMBDA s : s.alignment # "missing" /\ s.end_time - s.start_time > 0)

\* the tracks of the given name
TracksNamed(name) == SelectSeq(tracks, LAMBDA t : t.name = name)

RECURSIVE SumLengths(_, _)
\* the sum of the lengths of the first n items
SumLengths(items, n) ==
    IF n = 0 THEN 0 ELSE SumLengths(items, n - 1) + items[n].length

\* the segment is kept on the conformed timeline
IsKept(s) == s.alignment # "missing" /\ s.end_time - s.start_time > 0

\* the segment with the given segment_index
SegmentAt(index) == CHOOSE s \in {segments[k] : k \in 1..Len(segments)} : s.segment_index = index

\* the place among the kept segments of the one with the given segment_index
KeptRank(index) ==
    CHOOSE n \in 1..Len(KeptSegments) : KeptSegments[n].segment_index = index

\* C17: the conformed-edit track has exactly one item per segment that is
\* not missing and has positive length, in segment order; each item's length
\* is end_time - start_time, its source offset is start_time, its position
\* is the sum of the lengths of the earlier items, and the last item ends at
\* the total length of the kept segments.
C17_ConformedTrack ==
    (xpc = "done" /\ KeptSegments # <<>>) =>
        /\ Len(TracksNamed("Conformed Edit")) = 1
        /\ LET items == TracksNamed("Conformed Edit")[1].items
               N == Len(KeptSegments)
           IN  /\ Len(items) = N
               /\ \A n \in 1..N :
                     /\ items[n].length = KeptSegments[n].end_time - KeptSegments[n].start_time
                     /\ items[n].soffs = KeptSegments[n].start_time
                     /\ items[n].position = SumLengths(items, n - 1)
               /\ items[N].position + items[N].length = SumLengths(items, N)

\* C17 witness: two segments are kept around a skipped one
C17_Witness ==
    /\ xpc = "done"
    /\ Len(segments) = 3
    /\ IsKept(segments[1]) /\ ~IsKept(segments[2]) /\ IsKept(segments[3])
    /\ TracksNamed("Conformed Edit")[1].items[2].position > 0

\* the conflicts whose anchor segment is kept, in conflict order
MarkedConflicts ==
    SelectSeq(conflicts, LAMBDA c : IsKept(SegmentAt(c.segment_index)))

\* C18: every conflict anchored at a kept segment gets exactly one marker,
\* at the position of that segment's item on the conformed track, and a
\* conflict anchored at a skipped segment gets none.
C18_MarkersOnItems ==
    xpc = "done" =>
        /\ Len(markers) = Len(MarkedConflicts)
        /\ \A n \in 1..Len(MarkedConflicts) :
              /\ markers[n].name = MarkerLabel(MarkedConflicts[n])
              /\ markers[n].position =
                    TracksNamed("Conformed Edit")[1]
                        .items[KeptRank(MarkedConflicts[n].segment_index)].position

\* C18 witness: of two conflicts one is anchored at a skipped segment and the
\* other at a kept segment that is not the first item
C18_Witness ==
    /\ xpc = "done"
    /\ Len(conflicts) = 2
    /\ Len(markers) = 1
    /\ markers[1].position > 0

\* C19: an item of the conformed track is muted exactly when some conflict
\* anchored at its segment has status needs_edit, however many conflicts are
\* anchored there.
C19_MutedIffNeedsEdit ==
    (xpc = "done" /\ KeptSegments # <<>>) =>
        \A n \in 1..Len(KeptSegments) :
            TracksNamed("Conformed Edit")[1].items[n].mute = 1
                <=> \E c \in 1..Len(conflicts) :
                        /\ conflicts[c].segment_index = KeptSegments[n].segment_index
                        /\ conflicts[c].status = "needs_edit"

\* the needs_edit conflicts whose anchor segment has positive length
FlaggedConflicts ==
    SelectSeq(conflicts, LAMBDA c :
        /\ c.status = "needs_edit"
        /\ SegmentAt(c.segment_index).end_time - SegmentAt(c.segment_index).start_time > 0)

\* C20: the flagged track has one item per needs_edit conflict whose anchor
\* segment has positive length, in conflict order; the k-th item (k from 0)
\* is at the sum of the lengths of the earlier flagged items plus 0.1 s * k;
\* the track is muted and exists only when it has an item.
C20_FlaggedTrack ==
    xpc = "done" =>
        IF FlaggedConflicts = <<>>
        THEN TracksNamed("Flagged - Needs Edit") = <<>>
        ELSE /\ Len(TracksNamed("Flagged - Needs Edit")) = 1
             /\ TracksNamed("Flagged - Needs Edit")[1].mute = 1
             /\ LET items == TracksNamed("Flagged - Needs Edit")[1].items
                IN  /\ Len(items) = Len(FlaggedConflicts)
                    /\ \A n \in 1..Len(items) :
                          LET seg == SegmentAt(FlaggedConflicts[n].segment_index)
                          IN  /\ items[n].length = seg.end_time - seg.start_time
                              /\ items[n].soffs = seg.start_time
                              /\ items[n].position =
                                    SumLengths(items, n - 1) + FlaggedGap * (n - 1)

\* C20 witness: two flagged items, the second anchored before the first
C20_Witness ==
    /\ xpc = "done"
    /\ Len(conflicts) = 2
    /\ conflicts[2].segment_index < conflicts[1].segment_index
    /\ Len(TracksNamed("Flagged - Needs Edit")) = 1
    /\ Len(TracksNamed("Flagged - Needs Edit")[1].items) = 2

\* the reference tracks: those that are neither the conformed nor the flagged track
ReferenceTracks ==
    SelectSeq(tracks, LAMBDA t : t.name # "Conformed Edit" /\ t.name # "Flagged - Needs Edit")

RECURSIVE SumDurations(_, _)
\* the sum of the durations of the first n audio sources
SumDurations(afs, n) ==
    IF n = 0 THEN 0 ELSE SumDurations(afs, n - 1) + ReferenceDuration(afs[n])

\* C21: there is a single muted reference track, holding one item per audio
\* source in source order; item i has source offset 0, the full duration of
\* source i as its length, and the sum of the durations of the earlier
\* sources as its position.
C21_SingleReferenceTrack ==
    xpc = "done" =>
        /\ Len(ReferenceTracks) = 1
        /\ ReferenceTracks[1].mute = 1
        /\ Len(ReferenceTracks[1].items) = Len(audio_files)
        /\ \A i \in 1..Len(audio_files) :
              /\ ReferenceTracks[1].items[i].soffs = 0
              /\ ReferenceTracks[1].items[i].length = ReferenceDuration(audio_files[i])
              /\ ReferenceTracks[1].items[i].position = SumDurations(audio_files, i - 1)

-----------------------------------------------------------------------------
(* Background processing (app/routes/project.py).                           *)
(*                                                                         *)
(* A chapter is written by its position in section_index order; an audio   *)
(* file's chapter_id is that position, or 0 for None.  Every commit of the  *)
(* code is the end of one step of a thread, so that the requests and the    *)
(* threads interleave at the commits.                                      *)

MaxChapters == 2
MaxAudio == 2
MaxRuns == 2

\* the parameters of transcribe_audio(audio_path, model_size="base")
transcribe_audio_parameters == {"audio_path", "model_size"}

\* Python's call binding: a keyword argument that names no parameter of the
\* callee raises TypeError before the body runs
CallRaises(parameters, keywords) == ~(keywords \subseteq parameters)

Chapter(has_text, processing_status) ==
    [has_text |-> has_text, processing_status |-> processing_status]

ProjectAudio(chapter_id, on_disk) ==
    [chapter_id |-> chapter_id, on_disk |-> on_disk]

Thread(p, ch, global_seg_idx) ==
    [pc |-> p, ch |-> ch, global_seg_idx |-> global_seg_idx]

\* the ids of the audio files of a chapter (chapter_id 0: the unassigned ones)
AudioOf(chapter_id) ==
    {a \in 1..Len(project_audio) : project_audio[a].chapter_id = chapter_id}

OnDisk(ids) == {a \in ids : project_audio[a].on_disk}

InitProject ==
    /\ IdleAlign
    /\ IdleConflict
    /\ IdleRetake
    /\ IdleRpp
    /\ project_status = "created"
    /\ audio_mode = "chapterized"
    /\ \E n \in 1..MaxChapters :
          /\ \E texts \in [1..n -> BOOLEAN] :
                chapters = [c \in 1..n |-> Chapter(texts[c], "pending")]
          /\ \E m \in 0..MaxAudio :
                \E ids \in [1..m -> 0..n], disk \in [1..m -> BOOLEAN] :
                   project_audio = [a \in 1..m |-> ProjectAudio(ids[a], disk[a])]
    /\ db_segments = <<>>
    /\ threads = <<>>
    /\ db_takes = <<>>
    /\ db_conflicts = <<>>
    /\ sections = <<>>
    /\ response = 0

\* _start_processing: one more daemon thread running _process_project
StartProcessing == Append(threads, Thread("start", 0, 0))

\* POST /<project_id>/assign
AssignChapters ==
    /\ Len(threads) < MaxRuns
    /\ \E mode \in {"chapterized", "continuous"} :
          /\ audio_mode' = mode
          /\ IF mode = "chapterized"
                THEN \E form \in [1..Len(project_audio) -> 0..Len(chapters)] :
                        project_audio' = [a \in 1..Len(project_audio) |->
                            [project_audio[a] EXCEPT !.chapter_id = form[a]]]
                ELSE project_audio' = [a \in 1..Len(project_audio) |->
                            [project_audio[a] EXCEPT !.chapter_id = 0]]
    /\ project_status' = "processing"
    /\ threads' = StartProcessing
    /\ UNCHANGED <<chapters, db_segments>>
    /\ UNCHANGED <<alignVars, conflictVars, retakeVars, rppVars, reviewVars>>

\* POST /<project_id>/reprocess
Reprocess ==
    /\ Len(threads) < MaxRuns
    /\ IF project_audio # <<>>
          THEN /\ db_segments' = <<>>
               /\ project_status' = "processing"
               /\ threads' = StartProcessing
          ELSE UNCHANGED <<db_segments, project_status, threads>>
    /\ UNCHANGED <<audio_mode, chapters, project_audio>>
    /\ UNCHANGED <<alignVars, conflictVars, retakeVars, rppVars, reviewVars>>

\* _process_project up to the dispatch on project.audio_mode
Dispatch(t) ==
    /\ threads[t].pc = "start"
    /\ threads' = [threads EXCEPT ![t] =
          IF audio_mode = "continuous"
             THEN Thread("continuous", 0, 0)
             ELSE Thread("chapter", 1, 0)]
    /\ UNCHANGED <<project_status, audio_mode, chapters, project_audio, db_segments>>
    /\ UNCHANGED <<alignVars, conflictVars, retakeVars, rppVars, reviewVars>>

\* _process_chapterized: the head of the loop over the chapters
BeginChapter(t) ==
    /\ threads[t].pc = "chapter"
    /\ IF threads[t].ch <= Len(chapters)
          THEN /\ chapters' = [chapters EXCEPT
                      ![threads[t].ch].processing_status = "processing"]
               /\ threads' = [threads EXCEPT ![t].pc = "body"]
          ELSE /\ threads' = [threads EXCEPT ![t].pc = "unassigned"]
               /\ UNCHANGED chapters
    /\ UNCHANGED <<project_status, audio_mode, project_audio, db_segments>>
    /\ UNCHANGED <<alignVars, conflictVars, retakeVars, rppVars, reviewVars>>

\* _process_chapterized: the rest of the loop body of one chapter.  The first
\* audio file of the chapter that is on disk is handed to transcribe_audio
\* with manuscript_text=chapter_text, and the call raises; the statements
\* after the call are reached for no audio file.
ChapterBody(t) ==
    LET ch == threads[t].ch
        chapter_audio == AudioOf(ch)
    IN  /\ threads[t].pc = "body"
        /\ IF chapters[ch].has_text /\ OnDisk(chapter_audio) # {}
              THEN /\ CallRaises(transcribe_audio_parameters, {"manuscript_text"})
                   /\ threads' = [threads EXCEPT ![t].pc = "except"]
                   /\ UNCHANGED chapters
              ELSE /\ chapters' = [chapters EXCEPT ![ch].processing_status = "ready"]
                   /\ threads' = [threads EXCEPT ![t].pc = "chapter", ![t].ch = ch + 1]
        /\ UNCHANGED <<project_status, audio_mode, project_audio, db_segments>>
        /\ UNCHANGED <<alignVars, conflictVars, retakeVars, rppVars, reviewVars>>

\* _process_unassigned_audio: the audio files of no chapter are aligned to the
\* text of the whole manuscript, the first of them on disk raising as above
Unassigned(t) ==
    /\ threads[t].pc = "unassigned"
    /\ IF /\ OnDisk(AudioOf(0)) # {}
          /\ \E c \in 1..Len(chapters) : chapters[c].has_text
          THEN /\ CallRaises(transcribe_audio_parameters, {"manuscript_text"})
               /\ threads' = [threads EXCEPT ![t].pc = "except"]
          ELSE threads' = [threads EXCEPT ![t].pc = "finish"]
    /\ UNCHANGED <<project_status, audio_mode, chapters, project_audio, db_segments>>
    /\ UNCHANGED <<alignVars, conflictVars, retakeVars, rppVars, reviewVars>>

\* _process_continuous: every chapter is marked as processing
MarkChapters(t) ==
    /\ threads[t].pc = "continuous"
    /\ chapters' = [c \in 1..Len(chapters) |->
                       [chapters[c] EXCEPT !.processing_status = "processing"]]
    /\ threads' = [threads EXCEPT ![t].pc = "stream"]
    /\ UNCHANGED <<project_status, audio_mode, project_audio, db_segments>>
    /\ UNCHANGED <<alignVars, conflictVars, retakeVars, rppVars, reviewVars>>

\* _process_continuous: the loop over the audio files.  The call for the first
\* file on disk reads the local full_text, which is assigned only further
\* down, and passes it as manuscript_text: it raises.  With no file on disk
\* the transcript is empty and every chapter is set to ready.
ContinuousBody(t) ==
    /\ threads[t].pc = "stream"
    /\ IF OnDisk(1..Len(project_audio)) # {}
          THEN /\ threads' = [threads EXCEPT ![t].pc = "except"]
               /\ UNCHANGED chapters
          ELSE /\ chapters' = [c \in 1..Len(chapters) |->
                                  [chapters[c] EXCEPT !.processing_status = "ready"]]
               /\ threads' = [threads EXCEPT ![t].pc = "finish"]
    /\ UNCHANGED <<project_status, audio_mode, project_audio, db_segments>>
    /\ UNCHANGED <<alignVars, conflictVars, retakeVars, rppVars, reviewVars>>

\* _process_project after the dispatched function has returned
Finish(t) ==
    /\ threads[t].pc = "finish"
    /\ project_status' = "ready"
    /\ threads' = [threads EXCEPT ![t].pc = "done"]
    /\ UNCHANGED <<audio_mode, chapters, project_audio, db_segments>>
    /\ UNCHANGED <<alignVars, conflictVars, retakeVars, rppVars, reviewVars>>

\* _process_project: the except branch
Except(t) ==
    /\ threads[t].pc = "except"
    /\ project_status' = "ready"
    /\ threads' = [threads EXCEPT ![t].pc = "done"]
    /\ UNCHANGED <<audio_mode, chapters, project_audio, db_segments>>
    /\ UNCHANGED <<alignVars, conflictVars, retakeVars, rppVars, reviewVars>>

Step(t) ==
    \/ Dispatch(t)
    \/ BeginChapter(t)
    \/ ChapterBody(t)
    \/ Unassigned(t)
    \/ MarkChapters(t)
    \/ ContinuousBody(t)
    \/ Finish(t)
    \/ Except(t)

NextProject ==
    \/ AssignChapters
    \/ Reprocess
    \/ \E t \in 1..Len(threads) : Step(t)

SpecProject == InitProject /\ [][NextProject]_vars

-----------------------------------------------------------------------------
(* Claims about the processing runs *)

\* the audio files a chapterized run is to align: those on disk that belong
\* to a chapter with text, or to no chapter while the manuscript has text
AudioToAlign ==
    {a \in OnDisk(1..Len(project_audio)) :
        IF project_audio[a].chapter_id = 0
           THEN \E c \in 1..Len(chapters) : chapters[c].has_text
           ELSE chapters[project_audio[a].chapter_id].has_text}

\* one chapterized run was started and has ended
OneChapterizedRunEnded ==
    /\ Len(threads) = 1
    /\ threads[1].pc = "done"
    /\ audio_mode = "chapterized"

Allocating(t) == threads[t].pc \in {"chapter", "body", "unassigned"}

SpecProjectFair ==
    SpecProject /\ \A t \in 1..MaxRuns : WF_vars(t \in 1..Len(threads) /\ Step(t))

\* every run that was started has ended
RunsEnded ==
    /\ threads # <<>>
    /\ \A t \in 1..Len(threads) : threads[t].pc = "done"

\* C29: when the runs started by assign_chapters and reprocess have ended,
\* normally or by an exception, the project is ready and no chapter is left
\* with processing_status "processing"
C29_ReadyLeavesNoChapterProcessing ==
    RunsEnded =>
        /\ project_status = "ready"
        /\ \A c \in 1..Len(chapters) : chapters[c].processing_status # "processing"

\* every run that is started ends, and with the project ready
EventuallyReady == [](threads # <<>> => <>(RunsEnded /\ project_status = "ready"))

-----------------------------------------------------------------------------
(* Export of segments with malformed timing *)

\* the kinds of segment of these exports: "reversed" ends before it starts
MalformedShapes == {"spoken", "reversed", "missing"}

InitMalformed ==
    /\ IdleAlign
    /\ IdleRetake
    /\ IdleWeb
    /\ cpc = "idle"
    /\ raw = <<>>
    /\ \E shapes \in SeqsUpTo(MalformedShapes, MaxRppSegments) :
          segments = [k \in 1..Len(shapes) |-> RppSegment(shapes[k], k)]
    /\ conflicts = <<>>
    /\ audio_files \in AudioChoices
    /\ xpc = "start"
    /\ markers = <<>>
    /\ tracks = <<>>

SpecMalformed == InitMalformed /\ [][NextRpp]_vars

\* C25: an export handed a segment that ends before it starts ends in an
\* error: it does not return a project with the segment dropped
C25_MalformedRejected ==
    (\E s \in 1..Len(segments) : segments[s].end_time < segments[s].start_time)
        => xpc # "done"

-----------------------------------------------------------------------------
(* Claim about the order of the aligned segments in time *)

\* C26: for a transcript whose words are time-ascending and do not overlap,
\* the aligned segments have non-decreasing start_time in segment_index
\* order: no missing segment lies before a spoken one that precedes it
C26_NonDecreasingStart ==
    pc = "done" =>
        \A p, q \in 1..Len(aligned) :
            p < q => aligned[p].start_time <= aligned[q].start_time

-----------------------------------------------------------------------------
(* Takes: the rows a processing run stores for one audio file            *)
(* (app/routes/project.py) and select_take (app/routes/api.py).  The id of *)
(* a row is its position in the table.                                     *)

MaxTakeWords == 9

TakeRow(segment_id, audio_id, start_time, end_time, take_number, is_selected) ==
    [segment_id |-> segment_id, audio_file_id |-> audio_id,
     start_time |-> start_time, end_time |-> end_time,
     take_number |-> take_number, is_selected |-> is_selected]

\* the loop over aligned: one row per segment
StoredSegments(segs, audio_id) ==
    [k \in 1..Len(segs) |->
        [id |-> k, audio_file_id |-> audio_id, start_time |-> segs[k].start_time,
         end_time |-> segs[k].end_time, segment_index |-> segs[k].segment_index]]

\* the loop over aligned: take 1, selected, for every segment that has a duration
FirstTakes(rows) ==
    LET timed == SelectSeq(rows, LAMBDA r : r.start_time # r.end_time)
    IN  [k \in 1..Len(timed) |->
            TakeRow(timed[k].id, timed[k].audio_file_id, timed[k].start_time,
                    timed[k].end_time, 1, TRUE)]

\* AlignmentSegment.query.filter_by(audio_file_id, start_time).first(): the
\* ids of the rows that match, of which the query returns the first
Existing(rows, audio_id, start_time) ==
    {r \in 1..Len(rows) :
        rows[r].audio_file_id = audio_id /\ rows[r].start_time = start_time}

\* the loop over the takes of one retake group, from the i-th (0-based) on
RECURSIVE GroupTakes(_, _, _, _)
GroupTakes(rows, audio_id, takes, i) ==
    IF i >= Len(takes) THEN <<>>
    ELSE LET take_info == takes[i + 1]
             existing == Existing(rows, audio_id, take_info.start_time)
         IN  (IF existing = {} THEN <<>>
              ELSE <<TakeRow(SetMin(existing), audio_id, take_info.start_time,
                             take_info.end_time, i + 1, i = 0)>>)
             \o GroupTakes(rows, audio_id, takes, i + 1)

\* the loop over retakes
RECURSIVE RetakeTakes(_, _, _, _)
RetakeTakes(rows, audio_id, retakes, g) ==
    IF g > Len(retakes) THEN <<>>
    ELSE GroupTakes(rows, audio_id, retakes[g].takes, 0)
         \o RetakeTakes(rows, audio_id, retakes, g + 1)

\* the places (0-based starts) at which a phrase of MinPhraseLen words can be
\* spoken two or three times among n words without overlap
RepeatedAt(n) ==
    LET starts == 0..(n - MinPhraseLen)
        after(a, b) == a + MinPhraseLen <= b
    IN  {o \in starts \X starts : after(o[1], o[2])}
        \cup {o \in starts \X starts \X starts : after(o[1], o[2]) /\ after(o[2], o[3])}

\* the k-th of n transcript words: the same three words at every occurrence
\* of the phrase, a word of its own elsewhere
TakeText(occurrences, k) ==
    LET inside == {i \in 1..Len(occurrences) :
                      occurrences[i] < k /\ k <= occurrences[i] + MinPhraseLen}
    IN  IF inside = {} THEN LongToken(k)
        ELSE SpokenAt(k - occurrences[SetMin(inside)])

\* the segments of a transcript whose manuscript has the phrase once: the
\* words of the later occurrences are extra
TakeSegments(tw, occurrences) ==
    [k \in 1..Len(tw) |->
        IF Len(occurrences) > 0 /\ k > occurrences[1] + MinPhraseLen
              /\ tw[k].word = TakeText(occurrences, k) /\ tw[k].word # LongToken(k)
           THEN Segment(tw[k].word, <<>>, tw[k].start, tw[k].end,
                        tw[k].confidence, k - 1, "extra")
           ELSE Segment(tw[k].word, tw[k].word, tw[k].start, tw[k].end,
                        tw[k].confidence, k - 1, "match")]

\* transcript_words, aligned and retakes of one audio file (its id is 1), in
\* which a phrase of three words is spoken once, twice or three times
InitTakes ==
    /\ \E n \in 1..MaxTakeWords :
          \E occurrences \in {<<>>} \cup RepeatedAt(n) :
             LET tw == MakeWords([k \in 1..n |-> TakeText(occurrences, k)])
             IN  /\ words = tw
                 /\ aligned = TakeSegments(tw, occurrences)
                 /\ retake_result =
                       IF occurrences = <<>> THEN <<>>
                       ELSE <<RetakeGroup(tw, [k \in 1..n |-> tw[k].word],
                                          occurrences[1], MinPhraseLen, occurrences)>>
    /\ mtext = <<>>
    /\ pc = "done"
    /\ manuscript_words = <<>>
    /\ transcript_texts = <<>>
    /\ opcodes = <<>>
    /\ opi = 1
    /\ seg_idx = 0
    /\ IdleConflict
    /\ IdleRpp
    /\ rpc = "done"
    /\ retake_groups = <<>>
    /\ gi = 1
    /\ kept = <<>>
    /\ covered_ranges = {}
    /\ IdleWeb

\* _process_chapterized from the loop over aligned to the loop over retakes,
\* for the one audio file
StoreTakes ==
    /\ db_segments = <<>>
    /\ db_segments' = StoredSegments(aligned, 1)
    /\ db_takes' = FirstTakes(db_segments') \o RetakeTakes(db_segments', 1, retake_result, 1)
    /\ UNCHANGED <<db_conflicts, sections, response>>
    /\ UNCHANGED <<project_status, audio_mode, chapters, project_audio, threads>>
    /\ UNCHANGED <<alignVars, conflictVars, retakeVars, rppVars>>

\* POST /take/<take_id>/select
select_take(take_id) ==
    /\ db_segments # <<>>
    /\ IF take_id \in 1..Len(db_takes)
          THEN LET take == db_takes[take_id]
               IN  /\ db_takes' = [t \in 1..Len(db_takes) |->
                          IF db_takes[t].segment_id = take.segment_id
                             THEN [db_takes[t] EXCEPT !.is_selected = (t = take_id)]
                             ELSE db_takes[t]]
                   /\ db_segments' = [s \in 1..Len(db_segments) |->
                          IF db_segments[s].id = take.segment_id
                             THEN [db_segments[s] EXCEPT
                                      !.start_time = take.start_time,
                                      !.end_time = take.end_time,
                                      !.audio_file_id = take.audio_file_id]
                             ELSE db_segments[s]]
                   /\ response' = 200
          ELSE /\ response' = 404
               /\ UNCHANGED <<db_takes, db_segments>>
    /\ UNCHANGED <<db_conflicts, sections>>
    /\ UNCHANGED <<project_status, audio_mode, chapters, project_audio, threads>>
    /\ UNCHANGED <<alignVars, conflictVars, retakeVars, rppVars>>

NextTakes ==
    \/ StoreTakes
    \/ \E take_id \in 1..(Len(db_takes) + 1) : select_take(take_id)

SpecTakes == InitTakes /\ [][NextTakes]_vars

\* the ids of the takes of segment s
TakesOf(s) == {t \in 1..Len(db_takes) : db_takes[t].segment_id = s}

-----------------------------------------------------------------------------
(* Review of the conflicts (app/routes/api.py).  The id of a conflict is   *)
(* its position in the table; the JSON body of a request is written as    *)
(* the record data, whose field has_status says if it has a "status" key.  *)

MaxConflictRows == 3

\* the bodies of the requests: with one of the three statuses, with a
\* status that is none of them, and with no status at all
RequestData ==
    {[has_status |-> TRUE, status |-> s] : s \in Statuses \cup {"resolved"}}
    \cup {[has_status |-> FALSE, status |-> ""]}

\* mutant of StatusAfter: the value of the request is stored as it comes
StatusAfter_Unchecked(old, data) ==
    IF data.has_status THEN data.status ELSE old

\* update_conflict: the status of the conflict after the request
StatusAfter(old, data) ==
    IF data.has_status /\ data.status \in Statuses THEN data.status ELSE old

\* the conflicts as processing stores them: status = c["status"], "pending"
InitReview ==
    /\ IdleAlign
    /\ IdleConflict
    /\ IdleRetake
    /\ IdleRpp
    /\ project_status = "ready"
    /\ audio_mode = "chapterized"
    /\ chapters = <<>>
    /\ project_audio = <<>>
    /\ db_segments = <<>>
    /\ threads = <<>>
    /\ db_takes = <<>>
    /\ \E n \in 1..MaxConflictRows : db_conflicts = [c \in 1..n |-> [status |-> "pending"]]
    /\ sections = <<>>
    /\ response = 0

\* POST /conflict/<conflict_id>/update
update_conflict(conflict_id, data) ==
    /\ IF conflict_id \in 1..Len(db_conflicts)
          THEN /\ db_conflicts' = [db_conflicts EXCEPT ![conflict_id].status =
                                      StatusAfter(@, data)]
               /\ response' = 200
          ELSE /\ response' = 404
               /\ UNCHANGED db_conflicts
    /\ UNCHANGED <<db_takes, sections>>
    /\ UNCHANGED <<project_status, audio_mode, chapters, project_audio, db_segments, threads>>
    /\ UNCHANGED <<alignVars, conflictVars, retakeVars, rppVars>>

\* POST /conflict/batch-update
batch_update_conflicts(conflict_ids, data) ==
    LET new_status == IF data.has_status THEN data.status ELSE "ok"
    IN  /\ IF new_status \notin Statuses
              THEN /\ response' = 400
                   /\ UNCHANGED db_conflicts
              ELSE /\ db_conflicts' = [c \in 1..Len(db_conflicts) |->
                          IF c \in conflict_ids
                             THEN [db_conflicts[c] EXCEPT !.status = new_status]
                             ELSE db_conflicts[c]]
                   /\ response' = 200
        /\ UNCHANGED <<db_takes, sections>>
        /\ UNCHANGED <<project_status, audio_mode, chapters, project_audio, db_segments, threads>>
        /\ UNCHANGED <<alignVars, conflictVars, retakeVars, rppVars>>

NextReview ==
    \/ \E conflict_id \in 1..(Len(db_conflicts) + 1), data \in RequestData :
          update_conflict(conflict_id, data)
    \/ \E conflict_ids \in SUBSET (1..(Len(db_conflicts) + 1)), data \in RequestData :
          batch_update_conflicts(conflict_ids, data)

SpecReview == InitReview /\ [][NextReview]_vars

\* the request body carries a status that is none of the three
InvalidStatus(data) == data.has_status /\ data.status \notin Statuses

\* C28: the status of every conflict is pending at first and always one of
\* pending, ok, needs_edit, and a request whose status is none of the three
\* changes no conflict; batch_update_conflicts answers it with an error
C28_StatusStaysValid ==
    /\ [](\A c \in 1..Len(db_conflicts) :
             /\ db_conflicts[c].status \in Statuses
             /\ response = 0 => db_conflicts[c].status = "pending")
    /\ [][\A data \in RequestData : InvalidStatus(data) =>
             /\ \A conflict_id \in 1..(Len(db_conflicts) + 1) :
                   update_conflict(conflict_id, data) => db_conflicts' = db_conflicts
             /\ \A conflict_ids \in SUBSET (1..(Len(db_conflicts) + 1)) :
                   batch_update_conflicts(conflict_ids, data) =>
                       db_conflicts' = db_conflicts /\ response' = 400]_vars

\* a conflict was set to needs_edit and a later batch request with an invalid
\* status was answered with the error
C28_Witness ==
    /\ response = 400
    /\ \E c \in 1..Len(db_conflicts) : db_conflicts[c].status = "needs_edit"

-----------------------------------------------------------------------------
(* The chapters of the manuscript (app/routes/api.py, remove_chapter).     *)
(* The rows get their ids in the order _store_sections adds them: a        *)
(* chapter, then its paragraphs, then the next chapter.                    *)

MaxBookChapters == 3
MaxParagraphs == 2

\* the rows parse_manuscript and _store_sections give a manuscript whose c-th
\* chapter has counts[c] paragraphs: section_index counts from 0, the
\* paragraphs' within their chapter
StoredSections(counts) ==
    LET id(c, k) == c * (MaxParagraphs + 1) + k
    IN  {[id |-> id(c, 0), section_type |-> "chapter", section_index |-> c - 1,
          parent_id |-> 0] : c \in 1..Len(counts)}
        \cup UNION {{[id |-> id(c, k), section_type |-> "paragraph",
                      section_index |-> k - 1, parent_id |-> id(c, 0)] :
                        k \in 1..counts[c]} : c \in 1..Len(counts)}

ChapterRows(rows) == {s \in rows : s.section_type = "chapter"}

ParagraphsOf(rows, chapter_id) ==
    {s \in rows : s.section_type = "paragraph" /\ s.parent_id = chapter_id}

\* the position enumerate gives row s in order_by(section_index) of the rows S
Enumerated(S, s) ==
    Cardinality({x \in S : \/ x.section_index < s.section_index
                           \/ x.section_index = s.section_index /\ x.id < s.id})

\* remove_chapter after its checks: the rows once the paragraphs of chapter
\* are moved to the target, the heading is deleted and the rest re-indexed
RowsWithout(rows, chapter) ==
    LET all == ChapterRows(rows)
        before == {ch \in all : ch.section_index < chapter.section_index}
        after == {ch \in all : ch.section_index > chapter.section_index}
        target == IF before # {}
                     THEN CHOOSE ch \in before : Enumerated(before, ch) = Cardinality(before) - 1
                     ELSE CHOOSE ch \in after : Enumerated(after, ch) = 0
        existing_paras == Cardinality(ParagraphsOf(rows, target.id))
        paras == ParagraphsOf(rows, chapter.id)
        remaining == all \ {chapter}
        has_target == before # {} \/ after # {}
    IN  {IF s \in paras /\ has_target
            THEN [s EXCEPT !.parent_id = target.id,
                           !.section_index = existing_paras + Enumerated(paras, s)]
         ELSE IF s \in remaining
            THEN [s EXCEPT !.section_index = Enumerated(remaining, s)]
         ELSE s : s \in rows \ {chapter}}

InitSections ==
    /\ IdleAlign
    /\ IdleConflict
    /\ IdleRetake
    /\ IdleRpp
    /\ project_status = "created"
    /\ audio_mode = "chapterized"
    /\ chapters = <<>>
    /\ project_audio = <<>>
    /\ db_segments = <<>>
    /\ threads = <<>>
    /\ db_takes = <<>>
    /\ db_conflicts = <<>>
    /\ \E counts \in SeqsUpTo(0..MaxParagraphs, MaxBookChapters) :
          counts # <<>> /\ sections = StoredSections(counts)
    /\ response = 0

\* POST /chapter/<chapter_id>/remove
remove_chapter(chapter_id) ==
    LET found == {s \in sections : s.id = chapter_id}
        chapter == CHOOSE s \in found : TRUE
    IN  /\ IF found = {}
              THEN /\ response' = 404
                   /\ UNCHANGED <<sections, project_audio>>
              ELSE IF Cardinality(ChapterRows(sections)) <= 1
              THEN /\ response' = 400
                   /\ UNCHANGED <<sections, project_audio>>
              ELSE /\ sections' = RowsWithout(sections, chapter)
                   /\ project_audio' = [a \in 1..Len(project_audio) |->
                          IF project_audio[a].chapter_id = chapter_id
                             THEN [project_audio[a] EXCEPT !.chapter_id = 0]
                             ELSE project_audio[a]]
                   /\ response' = 200
        /\ UNCHANGED <<db_takes, db_conflicts>>
        /\ UNCHANGED <<project_status, audio_mode, chapters, db_segments, threads>>
        /\ UNCHANGED <<alignVars, conflictVars, retakeVars, rppVars>>

\* the requests name a chapter of the project or a row that does not exist
NextSections ==
    \E chapter_id \in {s.id : s \in ChapterRows(sections)} \cup {0} :
        remove_chapter(chapter_id)

SpecSections == InitSections /\ [][NextSections]_vars

\* paragraph p is read before paragraph q: chapters by section_index, then
\* paragraphs by section_index
ReadBefore(p, q) ==
    LET chapter_of(s) == CHOOSE ch \in ChapterRows(sections) : ch.id = s.parent_id
    IN  \/ chapter_of(p).section_index < chapter_of(q).section_index
        \/ /\ chapter_of(p).section_index = chapter_of(q).section_index
           /\ p.section_index < q.section_index

\* C30: after any removals the remaining chapters are numbered 0..k-1, every
\* paragraph still belongs to a chapter, and the paragraphs are read in the
\* order in which the manuscript was stored (the order of their ids)
C30_BodyIntact ==
    LET paragraphs == {s \in sections : s.section_type = "paragraph"}
        all == ChapterRows(sections)
    IN  /\ {ch.section_index : ch \in all} = 0..(Cardinality(all) - 1)
        /\ \A p \in paragraphs : \E ch \in all : ch.id = p.parent_id
        /\ \A p, q \in paragraphs : p.id < q.id => ReadBefore(p, q)

====
